---- MODULE Spec2Model ----
(***************************************************************************)
(* Planar-reflection glass renderer (main.js, gl.js, math.js and the       *)
(* standard/glass shaders).                                                *)
(*                                                                         *)
(* Numbers.  JavaScript numbers are modelled by integers.  Lengths are     *)
(* counted in tenths of a world unit inside the application model (the     *)
(* camera at (3,2,5) is <<30,20,50>>); direction vectors are axis aligned  *)
(* unit vectors, for which Math.sqrt, Math.cos and Math.sin are exact.     *)
(* The quotient 1/det of mat4Invert is kept as a fraction num/den.         *)
(* Matrices are the 16-element column-major arrays of math.js; the         *)
(* JavaScript index k is the TLA+ index k+1.                               *)
(***************************************************************************)
EXTENDS Integers, Sequences, FiniteSets, TLC

(***************************************************************************)
(* Bounds of the model.                                                    *)
(***************************************************************************)
\* coordinates of the points, directions' planes and translations fed to the
\* pure functions range over -MaxCoord..MaxCoord
MaxCoord == 2
\* window.innerWidth and window.innerHeight range over 1..MaxDim
MaxDim == 2
\* number of times the reflection render target may be rebuilt after init
MaxRebuilds == 2

(***************************************************************************)
(* math.js                                                                 *)
(***************************************************************************)
Abs(x) == IF x < 0 THEN -x ELSE x

Sign(x) == IF x < 0 THEN -1 ELSE IF x > 0 THEN 1 ELSE 0

\* integer quotient rounded toward zero
Quot(a, b) == Sign(a) * Sign(b) * (Abs(a) \div Abs(b))

\* Math.sqrt on the integers: the largest r with r*r <= n, by Newton's
\* iteration downward from r
RECURSIVE SqrtFrom(_, _)
SqrtFrom(n, r) ==
    LET next == (r + (n \div r)) \div 2
    IN  IF next >= r THEN r ELSE SqrtFrom(n, next)

Sqrt(n) == IF n = 0 THEN 0 ELSE SqrtFrom(n, n)

mat4Identity ==
    << 1, 0, 0, 0,
       0, 1, 0, 0,
       0, 0, 1, 0,
       0, 0, 0, 1 >>

\* out[i*4+j] = sum over k of a[i*4+k] * b[k*4+j]
mat4Multiply(a, b) ==
    [ idx \in 1..16 |->
        LET i == (idx - 1) \div 4
            j == (idx - 1) % 4
        IN  a[i * 4 + 0 + 1] * b[0 * 4 + j + 1] +
            a[i * 4 + 1 + 1] * b[1 * 4 + j + 1] +
            a[i * 4 + 2 + 1] * b[2 * 4 + j + 1] +
            a[i * 4 + 3 + 1] * b[3 * 4 + j + 1] ]

vec3Dot(a, b) == a[1] * b[1] + a[2] * b[2] + a[3] * b[3]

vec3Scale(v, s) == << v[1] * s, v[2] * s, v[3] * s >>

vec3Add(a, b) == << a[1] + b[1], a[2] + b[2], a[3] + b[3] >>

vec3Subtract(a, b) == << a[1] - b[1], a[2] - b[2], a[3] - b[3] >>

vec3Cross(a, b) ==
    << a[2] * b[3] - a[3] * b[2],
       a[3] * b[1] - a[1] * b[3],
       a[1] * b[2] - a[2] * b[1] >>

\* v / |v|, or the zero vector when |v| = 0
vec3Normalize(v) ==
    LET len == Sqrt(v[1] * v[1] + v[2] * v[2] + v[3] * v[3])
    IN  IF len > 0
        THEN << Quot(v[1], len), Quot(v[2], len), Quot(v[3], len) >>
        ELSE << 0, 0, 0 >>

mat4LookAt(eye, target, up) ==
    LET z == vec3Normalize(vec3Subtract(eye, target))
        x == vec3Normalize(vec3Cross(up, z))
        y == vec3Cross(z, x)
    IN  << x[1], y[1], z[1], 0,
           x[2], y[2], z[2], 0,
           x[3], y[3], z[3], 0,
           -vec3Dot(x, eye), -vec3Dot(y, eye), -vec3Dot(z, eye), 1 >>

mat4Translate(t) ==
    [ mat4Identity EXCEPT ![13] = t[1], ![14] = t[2], ![15] = t[3] ]

\* cos and sin of a multiple q of a quarter turn
CosQ(q) == << 1, 0, -1, 0 >>[(q % 4) + 1]

SinQ(q) == << 0, 1, 0, -1 >>[(q % 4) + 1]

\* pi/2 in thousandths of a radian, the angle unit of camera.yaw and
\* camera.pitch
quarterTurn == 1570

\* Math.sin(x) and Math.cos(x) for 0 <= x <= pi/4, angle and value in
\* thousandths, by the first terms of the power series
SinSmall(x) ==
    LET x2 == (x * x) \div 1000
        x3 == (x2 * x) \div 1000
        x5 == (x3 * x2) \div 1000
    IN  x - (x3 \div 6) + (x5 \div 120)

CosSmall(x) ==
    LET x2 == (x * x) \div 1000
        x4 == (x2 * x2) \div 1000
    IN  1000 - (x2 \div 2) + (x4 \div 24)

\* Math.sin and Math.cos on the first quadrant
SinFirst(r) == IF 2 * r <= quarterTurn THEN SinSmall(r) ELSE CosSmall(quarterTurn - r)

CosFirst(r) == IF 2 * r <= quarterTurn THEN CosSmall(r) ELSE SinSmall(quarterTurn - r)

\* Math.cos(a) and Math.sin(a), angle and value in thousandths
MathCos(a) ==
    LET k == (a % (4 * quarterTurn)) \div quarterTurn
        r == (a % (4 * quarterTurn)) % quarterTurn
    IN  << CosFirst(r), -SinFirst(r), -CosFirst(r), SinFirst(r) >>[k + 1]

MathSin(a) ==
    LET k == (a % (4 * quarterTurn)) \div quarterTurn
        r == (a % (4 * quarterTurn)) % quarterTurn
    IN  << SinFirst(r), CosFirst(r), -SinFirst(r), -CosFirst(r) >>[k + 1]

\* mat4RotateY(q * pi/2)
mat4RotateY(q) ==
    LET c == CosQ(q)
        s == SinQ(q)
    IN  << c, 0, -s, 0,
           0, 1, 0, 0,
           s, 0, c, 0,
           0, 0, 0, 1 >>

\* mat4RotateX(q * pi/2)
mat4RotateX(q) ==
    LET c == CosQ(q)
        s == SinQ(q)
    IN  << 1, 0, 0, 0,
           0, c, s, 0,
           0, -s, c, 0,
           0, 0, 0, 1 >>

mat4Scale(s) ==
    [ mat4Identity EXCEPT ![1] = s[1], ![6] = s[2], ![11] = s[3] ]

mat4Transpose(m) ==
    << m[1], m[5], m[9], m[13],
       m[2], m[6], m[10], m[14],
       m[3], m[7], m[11], m[15],
       m[4], m[8], m[12], m[16] >>

\* the sixteen cofactor sums mat4Invert stores in out before dividing
Cofactors(m) ==
    << m[6] * m[11] * m[16] - m[6] * m[12] * m[15] - m[10] * m[7] * m[16] + m[10] * m[8] * m[15] + m[14] * m[7] * m[12] - m[14] * m[8] * m[11],
       -m[2] * m[11] * m[16] + m[2] * m[12] * m[15] + m[10] * m[3] * m[16] - m[10] * m[4] * m[15] - m[14] * m[3] * m[12] + m[14] * m[4] * m[11],
       m[2] * m[7] * m[16] - m[2] * m[8] * m[15] - m[6] * m[3] * m[16] + m[6] * m[4] * m[15] + m[14] * m[3] * m[8] - m[14] * m[4] * m[7],
       -m[2] * m[7] * m[12] + m[2] * m[8] * m[11] + m[6] * m[3] * m[12] - m[6] * m[4] * m[11] - m[10] * m[3] * m[8] + m[10] * m[4] * m[7],
       -m[5] * m[11] * m[16] + m[5] * m[12] * m[15] + m[9] * m[7] * m[16] - m[9] * m[8] * m[15] - m[13] * m[7] * m[12] + m[13] * m[8] * m[11],
       m[1] * m[11] * m[16] - m[1] * m[12] * m[15] - m[9] * m[3] * m[16] + m[9] * m[4] * m[15] + m[13] * m[3] * m[12] - m[13] * m[4] * m[11],
       -m[1] * m[7] * m[16] + m[1] * m[8] * m[15] + m[5] * m[3] * m[16] - m[5] * m[4] * m[15] - m[13] * m[3] * m[8] + m[13] * m[4] * m[7],
       m[1] * m[7] * m[12] - m[1] * m[8] * m[11] - m[5] * m[3] * m[12] + m[5] * m[4] * m[11] + m[9] * m[3] * m[8] - m[9] * m[4] * m[7],
       m[5] * m[10] * m[16] - m[5] * m[12] * m[14] - m[9] * m[6] * m[16] + m[9] * m[8] * m[14] + m[13] * m[6] * m[12] - m[13] * m[8] * m[10],
       -m[1] * m[10] * m[16] + m[1] * m[12] * m[14] + m[9] * m[2] * m[16] - m[9] * m[4] * m[14] - m[13] * m[2] * m[12] + m[13] * m[4] * m[10],
       m[1] * m[6] * m[16] - m[1] * m[8] * m[14] - m[5] * m[2] * m[16] + m[5] * m[4] * m[14] + m[13] * m[2] * m[8] - m[13] * m[4] * m[6],
       -m[1] * m[6] * m[12] + m[1] * m[8] * m[10] + m[5] * m[2] * m[12] - m[5] * m[4] * m[10] - m[9] * m[2] * m[8] + m[9] * m[4] * m[6],
       -m[5] * m[10] * m[15] + m[5] * m[11] * m[14] + m[9] * m[6] * m[15] - m[9] * m[7] * m[14] - m[13] * m[6] * m[11] + m[13] * m[7] * m[10],
       m[1] * m[10] * m[15] - m[1] * m[11] * m[14] - m[9] * m[2] * m[15] + m[9] * m[3] * m[14] + m[13] * m[2] * m[11] - m[13] * m[3] * m[10],
       -m[1] * m[6] * m[15] + m[1] * m[7] * m[14] + m[5] * m[2] * m[15] - m[5] * m[3] * m[14] - m[13] * m[2] * m[7] + m[13] * m[3] * m[6],
       m[1] * m[6] * m[11] - m[1] * m[7] * m[10] - m[5] * m[2] * m[11] + m[5] * m[3] * m[10] + m[9] * m[2] * m[7] - m[9] * m[3] * m[6] >>

\* a determinant that pairs the first row with the first four cofactors
\* instead of with the first column of cofactors
DeterminantAlongRow(m, out) ==
    m[1] * out[1] + m[2] * out[2] + m[3] * out[3] + m[4] * out[4]

\* let det = m[0] * out[0] + m[1] * out[4] + m[2] * out[8] + m[3] * out[12]
Determinant(m, out) ==
    m[1] * out[1] + m[2] * out[5] + m[3] * out[9] + m[4] * out[13]

\* an inversion without the determinant check
NeverSingular(det) == FALSE

\* if (det === 0)
IsSingular(det) == det = 0

\* The result out[i] * (1.0 / det) is the fraction num[i] / den with den > 0.
\* divided records whether the division 1.0 / det was executed, warned
\* whether console.warn was called, arg is the argument array as the call
\* leaves it (only out is written).
mat4Invert(m) ==
    LET out == Cofactors(m)
        det == Determinant(m, out)
    IN  IF IsSingular(det)
        THEN [ num |-> mat4Identity, den |-> 1, divided |-> FALSE, warned |-> TRUE,
               divisor |-> det, arg |-> m ]
        ELSE [ num |-> [ i \in 1..16 |-> out[i] * Sign(det) ], den |-> Abs(det),
               divided |-> TRUE, warned |-> FALSE, divisor |-> det, arg |-> m ]

(***************************************************************************)
(* Plane reflection (main.js)                                              *)
(***************************************************************************)
\* a point reflection that leaves out the plane's distance term
reflectPointIgnoringD(point, planeNormal, planeD) ==
    LET dist == vec3Dot(planeNormal, point)
    IN  vec3Subtract(point, vec3Scale(planeNormal, 2 * dist))

reflectPointAcrossPlane(point, planeNormal, planeD) ==
    LET dist == vec3Dot(planeNormal, point) + planeD
    IN  vec3Subtract(point, vec3Scale(planeNormal, 2 * dist))

\* a projection onto the plane: the normal component removed once, not twice
projectDirectionOntoPlane(direction, planeNormal) ==
    LET dist == vec3Dot(planeNormal, direction)
    IN  vec3Subtract(direction, vec3Scale(planeNormal, dist))

reflectDirectionAcrossPlane(direction, planeNormal) ==
    LET dist == vec3Dot(planeNormal, direction)
    IN  vec3Subtract(direction, vec3Scale(planeNormal, 2 * dist))

\* render: const clipPlane = new Float32Array([0, 0, 1, 0])
clipPlane == << 0, 0, 1, 0 >>

\* render: const noClipPlane = new Float32Array([0, 0, 0, 1])
noClipPlane == << 0, 0, 0, 1 >>

\* render: the mirrored camera of the reflection pass for the plane 'plane'
MirroredCamera(position, forward, plane) ==
    LET planeNormal == vec3Normalize(<< plane[1], plane[2], plane[3] >>)
        planeD == plane[4]
        mirroredPos == reflectPointAcrossPlane(position, planeNormal, planeD)
        mirroredForward == reflectDirectionAcrossPlane(forward, planeNormal)
        mirroredTarget == vec3Add(mirroredPos, mirroredForward)
        mirroredUp == reflectDirectionAcrossPlane(<< 0, 1, 0 >>, planeNormal)
    IN  [ mirroredPos |-> mirroredPos,
          mirroredForward |-> mirroredForward,
          mirroredTarget |-> mirroredTarget,
          mirroredUp |-> mirroredUp,
          mirroredView |-> mat4LookAt(mirroredPos, mirroredTarget, mirroredUp) ]

\* render: mat4.transpose(mat4.invert(model)), a fraction num/den
NormalMatrix(model) ==
    LET inv == mat4Invert(model)
    IN  [ num |-> mat4Transpose(inv.num), den |-> inv.den ]

(***************************************************************************)
(* shaders/standard.vert and shaders/standard.frag                         *)
(***************************************************************************)
\* uModel * vec4(aPosition, 1.0), column-major matrix times column vector
TransformPoint(m, p) ==
    << m[1] * p[1] + m[5] * p[2] + m[9] * p[3] + m[13],
       m[2] * p[1] + m[6] * p[2] + m[10] * p[3] + m[14],
       m[3] * p[1] + m[7] * p[2] + m[11] * p[3] + m[15] >>

\* vClipDist = dot(uClipPlane, vec4(vPositionWorld, 1.0))
ClipDist(uClipPlane, vPositionWorld) ==
    uClipPlane[1] * vPositionWorld[1] + uClipPlane[2] * vPositionWorld[2] +
    uClipPlane[3] * vPositionWorld[3] + uClipPlane[4] * 1

\* a discard test that also drops fragments exactly on the plane
DiscardedOnPlane(vClipDist) == vClipDist <= 0

\* if (vClipDist < 0.0) discard;
Discarded(vClipDist) == vClipDist < 0

\* one vertex of an opaque drawable through both stages
StandardShader(uModel, uClipPlane, aPosition) ==
    LET vPositionWorld == TransformPoint(uModel, aPosition)
        vClipDist == ClipDist(uClipPlane, vPositionWorld)
    IN  [ vPositionWorld |-> vPositionWorld,
          vClipDist |-> vClipDist,
          discarded |-> Discarded(vClipDist) ]

(***************************************************************************)
(* shaders/glass.vert and shaders/glass.frag.  Shader values are counted   *)
(* in fifths: a unit vector has integer components and length One, so that *)
(* directions off the axes such as (3,4,0)/5 are exact.                    *)
(***************************************************************************)
\* the number 1.0 of the shader, in fifths
One == 5

\* max(a, b)
Max(a, b) == IF a >= b THEN a ELSE b

\* normalize(v), components in fifths; exact when |v| is an integer
Normalize(v) ==
    LET len == Sqrt(vec3Dot(v, v))
    IN  << Quot(v[1] * One, len), Quot(v[2] * One, len), Quot(v[3] * One, len) >>

\* mat3(uModelMatrix) * aNormal
Mat3Times(uModelMatrix, aNormal) ==
    << uModelMatrix[1] * aNormal[1] + uModelMatrix[5] * aNormal[2] + uModelMatrix[9] * aNormal[3],
       uModelMatrix[2] * aNormal[1] + uModelMatrix[6] * aNormal[2] + uModelMatrix[10] * aNormal[3],
       uModelMatrix[3] * aNormal[1] + uModelMatrix[7] * aNormal[2] + uModelMatrix[11] * aNormal[3] >>

\* glass.vert: the varyings of a vertex the fragment stage reads
GlassVertexShader(uModelMatrix, uClipPlane, aPosition, aNormal) ==
    LET vPosition == TransformPoint(uModelMatrix, aPosition)
    IN  [ vPosition |-> vPosition,
          vNormal |-> Normalize(Mat3Times(uModelMatrix, aNormal)),
          vClipDist |-> ClipDist(uClipPlane, vPosition) ]

\* the value of One * One * One in which a fresnel term is counted: N and V
\* are in fifths, dot(N, V) in 25ths and its cube in 15625ths
FresnelOne == (One * One) * (One * One) * (One * One)

\* a fresnel term without the clamp of dot(N, V) at zero
FresnelUnclamped(N, V) ==
    LET x == One * One - vec3Dot(N, V)
    IN  x * x * x

\* pow(1.0 - max(dot(N, V), 0.0), 3.0), in units of 1 / FresnelOne
Fresnel(N, V) ==
    LET x == One * One - Max(vec3Dot(N, V), 0)
    IN  x * x * x

\* mix(x, y, a) = x * (1 - a) + y * a for a weight a in units of 1 / FresnelOne;
\* the result is in units of 1 / FresnelOne of the colour unit
Mix(x, y, a) == x * (FresnelOne - a) + y * a

\* the constants 0.2 and 0.8 of the alpha formula, in tenths
alphaFloor == 2

alphaGain == 8

\* an alpha that grows with the transparency instead of falling
GlassAlphaNotInverted(uTransparency, fresnel) ==
    uTransparency * (alphaFloor * FresnelOne + alphaGain * fresnel)

\* (1.0 - uTransparency) * (0.2 + 0.8 * fresnel) with uTransparency in fifths:
\* the numerator of alpha over AlphaOne
GlassAlpha(uTransparency, fresnel) ==
    (One - uTransparency) * (alphaFloor * FresnelOne + alphaGain * fresnel)

\* the value of alpha = 1.0 in the units of GlassAlpha
AlphaOne == One * (alphaFloor + alphaGain) * FresnelOne

\* the threshold 0.01 of reflW, with clip coordinates counted in hundredths
reflWMin == 1

\* a texture coordinate that is not clamped
Unclamped(num, den) == num

\* clamp(num / den, 0.0, 1.0) for den > 0: the numerator of the result
Clamp(num, den) == IF num < 0 THEN 0 ELSE IF num > den THEN den ELSE num

\* texture2D(uReflectionTex, uv) on a texture of 2 x 2 texels of the colours
\* 1..4, with CLAMP_TO_EDGE; uv is << unum, vnum, den >>, the coordinates
\* unum / den and vnum / den
Texture2D(uv) ==
    LET Texel(num) == IF num < 0 THEN 0 ELSE IF 2 * num >= uv[3] THEN 1 ELSE 0
    IN  1 + Texel(uv[1]) + 2 * Texel(uv[2])

\* glass.frag, the reflection colour in halves of a colour unit: tintedBase *
\* 0.5 unless reflW > 0.01, then the texel at clamp(ndc * 0.5 + 0.5, 0, 1)
\* with ndc = xy / reflW, so that ndc * 0.5 + 0.5 = (xy + reflW) / (2 reflW)
ReflectionColor(vReflectionClipPos, tintedBase) ==
    LET reflW == vReflectionClipPos[3]
        den == 2 * reflW
        screenUV == << Clamp(vReflectionClipPos[1] + reflW, den),
                       Clamp(vReflectionClipPos[2] + reflW, den), den >>
    IN  IF reflW > reflWMin
        THEN [ sampled |-> TRUE, divisor |-> reflW, screenUV |-> screenUV,
               reflColor |-> 2 * Texture2D(screenUV) ]
        ELSE [ sampled |-> FALSE, divisor |-> 0, screenUV |-> << 0, 0, 0 >>,
               reflColor |-> tintedBase ]

\* glass.frag: one fragment, tintedBase and reflColor being one channel of the
\* base colour and of the reflection colour
GlassFragmentShader(vNormal, vPosition, vClipDist, uCameraPos, uTransparency, tintedBase, reflColor) ==
    LET N == Normalize(vNormal)
        V == Normalize(vec3Subtract(uCameraPos, vPosition))
        fresnel == Fresnel(N, V)
    IN  [ discarded |-> Discarded(vClipDist),
          N |-> N,
          V |-> V,
          fresnel |-> fresnel,
          color |-> Mix(tintedBase, reflColor, fresnel),
          alpha |-> GlassAlpha(uTransparency, fresnel) ]

(***************************************************************************)
(* The WebGL2 context (the part of its state the application uses) and     *)
(* gl.js.  Object handles are positive integers handed out in order and    *)
(* never reused.  Texture unit k is units[k + 1].  log holds the           *)
(* operations of the frame being rendered, in the order they were issued.  *)
(***************************************************************************)
\* the JavaScript null (and undefined) handle
Null == 0

NoUniforms == [ shader |-> "none" ]

\* initWebGL: canvas.getContext('webgl2') failed
NullContext ==
    [ null |-> TRUE, nextId |-> 1,
      shaders |-> {}, programs |-> {}, textures |-> {},
      renderbuffers |-> {}, framebuffers |-> {},
      framebuffer |-> Null, program |-> Null, vao |-> "none",
      activeTexture |-> 0, units |-> << Null, Null, Null >>,
      viewport |-> << 0, 0 >>,
      depthTest |-> FALSE, cullFace |-> FALSE, cullMode |-> "BACK",
      frontFace |-> "CCW", blend |-> FALSE, blendFunc |-> << "ONE", "ZERO" >>,
      depthMask |-> TRUE,
      uniforms |-> [ h \in {} |-> NoUniforms ],
      pass |-> "none", log |-> << >>, calls |-> << >> ]

\* an initWebGL that hands out a context whatever getContext answered
initWebGLWithoutCheck(ctxOk) ==
    [ NullContext EXCEPT !.null = FALSE, !.depthTest = TRUE,
                         !.cullFace = TRUE, !.cullMode = "BACK" ]

\* initWebGL: the context with depth test and back-face culling enabled
initWebGL(ctxOk) ==
    IF ~ctxOk
    THEN NullContext
    ELSE [ NullContext EXCEPT !.null = FALSE, !.depthTest = TRUE,
                              !.cullFace = TRUE, !.cullMode = "BACK" ]

\* what the log keeps of an operation: the state it was issued in
LogEntry(g, op) ==
    [ pass |-> g.pass, op |-> op,
      framebuffer |-> g.framebuffer, program |-> g.program, vao |-> g.vao,
      viewport |-> g.viewport, units |-> g.units,
      blend |-> g.blend, blendFunc |-> g.blendFunc,
      depthMask |-> g.depthMask, depthTest |-> g.depthTest,
      frontFace |-> g.frontFace, cullFace |-> g.cullFace, cullMode |-> g.cullMode,
      uniforms |-> IF g.program \in DOMAIN g.uniforms
                   THEN g.uniforms[g.program] ELSE NoUniforms ]

Logged(g, op) == [ g EXCEPT !.log = Append(@, LogEntry(g, op)) ]

\* the section of render the following operations belong to
EnterPass(g, pass) == [ g EXCEPT !.pass = pass ]

glBindFramebuffer(g, fbo) ==
    Logged([ g EXCEPT !.framebuffer = fbo ], "bindFramebuffer")

glViewport(g, w, h) == [ g EXCEPT !.viewport = << w, h >> ]

\* gl.clear(gl.COLOR_BUFFER_BIT | gl.DEPTH_BUFFER_BIT)
glClear(g) == Logged(g, "clear")

glUseProgram(g, program) == [ g EXCEPT !.program = program ]

glBindVertexArray(g, vao) == [ g EXCEPT !.vao = vao ]

glActiveTexture(g, unit) == [ g EXCEPT !.activeTexture = unit ]

glBindTexture(g, texture) ==
    [ g EXCEPT !.units[g.activeTexture + 1] = texture ]

glDrawElements(g) == Logged(g, "drawElements")

\* what gl.calls keeps of a call that creates, sizes or deletes an object
Called(g, op, id) == [ g EXCEPT !.calls = Append(@, [ op |-> op, id |-> id ]) ]

glDeleteFramebuffer(g, fbo) ==
    Called([ g EXCEPT !.framebuffers = { f \in @ : f.id # fbo },
                      !.framebuffer = IF @ = fbo THEN Null ELSE @ ],
           "deleteFramebuffer", fbo)

glDeleteTexture(g, texture) ==
    Called([ g EXCEPT !.textures = { x \in @ : x.id # texture },
                      !.units = [ k \in 1..3 |-> IF @[k] = texture THEN Null ELSE @[k] ] ],
           "deleteTexture", texture)

glDeleteRenderbuffer(g, rb) ==
    Called([ g EXCEPT !.renderbuffers = { x \in @ : x.id # rb } ],
           "deleteRenderbuffer", rb)

\* createShader: a shader object, deleted again when it does not compile
createShader(g, compiles) ==
    LET shader == g.nextId
        g1 == [ g EXCEPT !.nextId = @ + 1, !.shaders = @ \cup { shader } ]
    IN  IF ~compiles
        THEN [ gl |-> [ g1 EXCEPT !.shaders = @ \ { shader } ], shader |-> Null ]
        ELSE [ gl |-> g1, shader |-> shader ]

\* createProgram: status says whether the vertex stage compiles, the
\* fragment stage compiles and the program links
createProgram(g, status) ==
    LET vs == createShader(g, status.vs)
        fs == createShader(vs.gl, status.fs)
        vertexShader == vs.shader
        fragmentShader == fs.shader
        program == fs.gl.nextId
        g1 == [ fs.gl EXCEPT !.nextId = @ + 1, !.programs = @ \cup { program } ]
    IN  IF vertexShader = Null \/ fragmentShader = Null
        THEN [ gl |-> fs.gl, program |-> Null ]
        ELSE IF ~status.link
        THEN [ gl |-> [ g1 EXCEPT !.programs = @ \ { program } ], program |-> Null ]
        ELSE [ gl |-> [ g1 EXCEPT !.shaders = @ \ { vertexShader, fragmentShader },
                                  !.uniforms = (program :> NoUniforms) @@ @ ],
               program |-> program ]

\* createTexture2D: binds the new texture on the active unit and unbinds it
createTexture2D(g, w, h) ==
    LET texture == g.nextId
    IN  [ gl |-> [ g EXCEPT !.nextId = @ + 1,
                            !.textures = @ \cup { [ id |-> texture, w |-> w, h |-> h ] },
                            !.units[g.activeTexture + 1] = Null,
                            !.calls = @ \o << [ op |-> "createTexture", id |-> texture ],
                                              [ op |-> "texImage2D", id |-> texture ] >> ],
          texture |-> texture ]

\* createDepthTexture: a depth renderbuffer
createDepthTexture(g, w, h) ==
    LET renderbuffer == g.nextId
    IN  [ gl |-> [ g EXCEPT !.nextId = @ + 1,
                            !.renderbuffers =
                                @ \cup { [ id |-> renderbuffer, w |-> w, h |-> h ] },
                            !.calls = @ \o << [ op |-> "createRenderbuffer", id |-> renderbuffer ],
                                              [ op |-> "renderbufferStorage", id |-> renderbuffer ] >> ],
          renderbuffer |-> renderbuffer ]

\* createFramebuffer: complete is the answer of gl.checkFramebufferStatus.
\* An incomplete framebuffer is logged to the console, deleted, and null is
\* returned.
createFramebuffer(g, colorTex, depthAttachment, complete) ==
    LET fbo == g.nextId
        g1 == [ g EXCEPT !.nextId = @ + 1, !.framebuffer = Null,
                         !.calls = Append(@, [ op |-> "createFramebuffer", id |-> fbo ]) ]
    IN  IF ~complete
        THEN [ gl |-> Called(g1, "deleteFramebuffer", fbo), fbo |-> Null,
               consoleError |-> TRUE ]
        ELSE [ gl |-> [ g1 EXCEPT !.framebuffers =
                            @ \cup { [ id |-> fbo, color |-> colorTex,
                                       depth |-> depthAttachment ] } ],
               fbo |-> fbo, consoleError |-> FALSE ]

\* setUniforms: every call of main.js passes the full uniform set of its program
setUniforms(g, program, uniformMap) ==
    [ g EXCEPT !.program = program,
               !.uniforms = IF program \in DOMAIN @
                            THEN [ @ EXCEPT ![program] = uniformMap ] ELSE @ ]

(***************************************************************************)
(* The application state: the globals of main.js, the browser around it    *)
(* and the inputs of the pure-function specifications.                     *)
(***************************************************************************)
VARIABLES
    env,                \* what the browser will answer: context, fetch, compile status
    keysDown,           \* the keys of the keyboard that are held down
    window,             \* window.innerWidth, window.innerHeight
    pc,                 \* "start", "stopped", "idle", "pass1", "pass2", "debug"
    resizeListener,     \* window.addEventListener('resize', handleResize) was called
    inputListeners,     \* setupInput() was called
    rafQueued,          \* the number of pending requestAnimationFrame(render) callbacks
    gl,                 \* the WebGL2 context
    canvas,             \* canvas.width, canvas.height
    camera, inputState, lastTime, viewMatrix,
    transparency, cubeDistance, debugEnabled,
    standardProgram, glassProgram, debugProgram, debugVao, baseTexture,
    reflectionFbo, reflectionColorTex, reflectionDepth, fboWidth, fboHeight,
    projectionMatrix,
    frame,              \* the locals of the running render call
    console,            \* messages written with console.error / console.warn
    errorShown,         \* the webgl2Error element carries the class 'show'
    rebuilds,           \* number of createReflectionFbo calls made by resize events
    fetched,            \* the shader files init has requested with loadShader
    mathIn, mathOut, mathPc   \* input, result and progress of a pure-function run

envVars == << env, window, keysDown >>
loopVars == << pc, resizeListener, inputListeners, rafQueued >>
progVars == << standardProgram, glassProgram, debugProgram, debugVao, baseTexture >>
fboVars == << reflectionFbo, reflectionColorTex, reflectionDepth, fboWidth, fboHeight >>
viewVars == << canvas, projectionMatrix >>
camVars == << camera, inputState, lastTime, viewMatrix >>
uiVars == << transparency, cubeDistance, debugEnabled >>
miscVars == << frame, console, errorShown, rebuilds, fetched >>
mathVars == << mathIn, mathOut, mathPc >>

vars == << envVars, loopVars, gl, progVars, fboVars, viewVars, camVars, uiVars,
           miscVars, mathVars >>

(***************************************************************************)
(* Scene constants of main.js, lengths in tenths of a world unit.          *)
(***************************************************************************)
\* camera.speed = 3.0 world units per second
cameraSpeed == 3

\* Math.min(0.1, now - lastTime): the cap, in tenths of a second
maxDeltaTime == 1

\* createCube(0.5): the half-extent
cubeSize == 5

\* the eight corners of the cube mesh
CubeCorners ==
    { << x, y, z >> : x \in { -cubeSize, cubeSize }, y \in { -cubeSize, cubeSize },
                      z \in { -cubeSize, cubeSize } }

\* mat4.translate(new Float32Array([1.0, 2.0, -1.5]))
spherePosition == << 10, 20, -15 >>

\* createPlane(width, height, subdivisions): the grid of the XZ plane with the
\* normal (0, 1, 0) at every vertex and two triangles (a, b, c), (b, d, c) per
\* cell; vertex indices count from 0 as in the index buffer
createPlane(width, height, subdivisions) ==
    LET w2 == Quot(width, 2)
        h2 == Quot(height, 2)
        row == subdivisions + 1
        Cells == { << x, z >> : x \in 0..(subdivisions - 1), z \in 0..(subdivisions - 1) }
        a(cell) == cell[2] * row + cell[1]
    IN  [ positions |-> [ i \in 0..(row * row - 1) |->
                            << Quot((i % row) * width, subdivisions) - w2,
                               0,
                               Quot((i \div row) * height, subdivisions) - h2 >> ],
          normals |-> [ i \in 0..(row * row - 1) |-> << 0, 1, 0 >> ],
          indices |-> { << a(cell), a(cell) + 1, a(cell) + row >> : cell \in Cells }
                      \cup { << a(cell) + 1, a(cell) + row + 1, a(cell) + row >> : cell \in Cells } ]

\* the glass mesh: createPlane(16, 9, 1), lengths in tenths
planeMesh == createPlane(160, 90, 1)

\* mat4.rotateX(-Math.PI / 2): the plane mesh turned from XZ to XY
planeModel == mat4RotateX(-1)

\* gl.frontFace(gl.CCW) with gl.cullFace(gl.BACK) enabled: a triangle is
\* rasterised when its vertices a, b, c appear counter-clockwise from the eye,
\* that is when the eye is on the side (b - a) x (c - a) points to
FrontFacing(a, b, c, eye) ==
    vec3Dot(vec3Cross(vec3Subtract(b, a), vec3Subtract(c, a)), vec3Subtract(eye, a)) > 0

\* the camera object as declared: the position in tenths, the forward
\* direction, yaw and pitch in thousandths
InitialCamera ==
    [ position |-> << 30, 20, 50 >>,
      forward |-> << 0, 0, -1000 >>,
      viewMatrix |-> mat4Identity,
      yaw |-> -quarterTurn,
      pitch |-> 0 ]

InitialInputState == [ forward |-> 0, right |-> 0, up |-> 0, pointerLocked |-> FALSE ]

RECURSIVE Gcd(_, _)
Gcd(a, b) == IF b = 0 THEN a ELSE Gcd(b, a % b)

\* mat4.perspective(Math.PI / 4, width / height, 0.1, 100.0): with fovy, near
\* and far fixed the matrix is determined by the aspect ratio, kept in lowest
\* terms
mat4Perspective(width, height) ==
    << width \div Gcd(width, height), height \div Gcd(width, height) >>

NoFrame ==
    [ cubeModel |-> mat4Identity, sphereModel |-> mat4Identity,
      cubeNormalMatrix |-> [ num |-> mat4Identity, den |-> 1 ],
      sphereNormalMatrix |-> [ num |-> mat4Identity, den |-> 1 ],
      mirroredView |-> mat4Identity, mirroredPos |-> << 0, 0, 0 >> ]

(***************************************************************************)
(* Camera (main.js).  yaw and pitch are counted in thousandths of a radian, *)
(* the components of forward in thousandths.                               *)
(***************************************************************************)
updateCameraForward(cam) ==
    LET cosPitch == MathCos(cam.pitch)
    IN  [ cam EXCEPT !.forward = << Quot(MathCos(cam.yaw) * cosPitch, 1000),
                                    MathSin(cam.pitch),
                                    Quot(MathSin(cam.yaw) * cosPitch, 1000) >> ]

updateCamera(cam, input, deltaTime) ==
    LET c1 == updateCameraForward(cam)
        worldUp == << 0, 1, 0 >>
        right == vec3Normalize(vec3Cross(c1.forward, worldUp))
        forwardFlat == vec3Normalize(<< c1.forward[1], 0, c1.forward[3] >>)
        move0 == << 0, 0, 0 >>
        move1 == IF input.forward # 0
                 THEN vec3Add(move0, vec3Scale(forwardFlat, input.forward)) ELSE move0
        move2 == IF input.right # 0
                 THEN vec3Add(move1, vec3Scale(right, input.right)) ELSE move1
        move3 == IF input.up # 0
                 THEN vec3Add(move2, vec3Scale(worldUp, input.up)) ELSE move2
        position == IF vec3Dot(move3, move3) > 0
                    THEN vec3Add(c1.position,
                                 vec3Scale(vec3Normalize(move3), cameraSpeed * deltaTime))
                    ELSE c1.position
        target == vec3Add(position, c1.forward)
    IN  [ c1 EXCEPT !.position = position,
                    !.viewMatrix = mat4LookAt(position, target, worldUp) ]

(***************************************************************************)
(* Reflection render target (main.js).                                     *)
(***************************************************************************)
\* a rebuild that forgets to delete the old color texture
createReflectionFboLeakingTexture(g, width, height, complete) ==
    LET g0 == [ g EXCEPT !.calls = << >> ]
        g1 == IF reflectionFbo # Null THEN glDeleteFramebuffer(g0, reflectionFbo) ELSE g0
        g3 == IF reflectionDepth # Null THEN glDeleteRenderbuffer(g1, reflectionDepth) ELSE g1
        tex == createTexture2D(g3, width, height)
        depth == createDepthTexture(tex.gl, width, height)
        fb == createFramebuffer(depth.gl, tex.texture, depth.renderbuffer, complete)
    IN  [ gl |-> fb.gl,
          reflectionFbo |-> fb.fbo,
          reflectionColorTex |-> tex.texture,
          reflectionDepth |-> depth.renderbuffer,
          consoleError |-> fb.consoleError ]

\* a rebuild that keeps the objects and gives their storage the new size
createReflectionFboInPlace(g, width, height, complete) ==
    IF reflectionColorTex = Null
    THEN createReflectionFboLeakingTexture(g, width, height, complete)
    ELSE [ gl |-> [ g EXCEPT
                      !.textures = { IF x.id = reflectionColorTex
                                     THEN [ x EXCEPT !.w = width, !.h = height ] ELSE x :
                                     x \in @ },
                      !.renderbuffers = { [ x EXCEPT !.w = width, !.h = height ] : x \in @ },
                      !.calls = << [ op |-> "texImage2D", id |-> reflectionColorTex ],
                                   [ op |-> "renderbufferStorage", id |-> reflectionDepth ] >> ],
           reflectionFbo |-> reflectionFbo,
           reflectionColorTex |-> reflectionColorTex,
           reflectionDepth |-> reflectionDepth,
           consoleError |-> FALSE ]

\* createReflectionFbo: delete what exists, then create texture, depth
\* renderbuffer and framebuffer at width x height.  gl.calls holds the calls
\* of the latest rebuild.
createReflectionFbo(g, width, height, complete) ==
    LET g0 == [ g EXCEPT !.calls = << >> ]
        g1 == IF reflectionFbo # Null THEN glDeleteFramebuffer(g0, reflectionFbo) ELSE g0
        g2 == IF reflectionColorTex # Null THEN glDeleteTexture(g1, reflectionColorTex) ELSE g1
        g3 == IF reflectionDepth # Null THEN glDeleteRenderbuffer(g2, reflectionDepth) ELSE g2
        tex == createTexture2D(g3, width, height)
        depth == createDepthTexture(tex.gl, width, height)
        fb == createFramebuffer(depth.gl, tex.texture, depth.renderbuffer, complete)
    IN  [ gl |-> fb.gl,
          reflectionFbo |-> fb.fbo,
          reflectionColorTex |-> tex.texture,
          reflectionDepth |-> depth.renderbuffer,
          consoleError |-> fb.consoleError ]

\* handleResize: if (canvas.width !== fboWidth || canvas.height !== fboHeight)
SizeChanged(width, height) == width # fboWidth \/ height # fboHeight

\* handleResize, run on the context state g
handleResize(g, complete) ==
    LET width == window'.innerWidth
        height == window'.innerHeight
        g1 == glViewport(g, width, height)
        r == createReflectionFbo(g1, width, height, complete)
    IN  /\ canvas' = [ width |-> width, height |-> height ]
        /\ projectionMatrix' = mat4Perspective(width, height)
        /\ IF SizeChanged(width, height)
           THEN /\ fboWidth' = width
                /\ fboHeight' = height
                /\ gl' = r.gl
                /\ reflectionFbo' = r.reflectionFbo
                /\ reflectionColorTex' = r.reflectionColorTex
                /\ reflectionDepth' = r.reflectionDepth
                /\ console' = IF r.consoleError
                              THEN console \cup { "Framebuffer incomplete" }
                              ELSE console
           ELSE /\ gl' = g1
                /\ UNCHANGED << fboVars, console >>

(***************************************************************************)
(* init (main.js)                                                          *)
(***************************************************************************)
\* a check that stops init only when both programs are missing
ProgramsBothMissing(standard, glass) == standard = Null /\ glass = Null

\* if (!standardProgram || !glassProgram) return;
ProgramsMissing(standard, glass) == standard = Null \/ glass = Null

\* init() up to its first return or to requestAnimationFrame(render).  No
\* listener is registered before the last await, so nothing runs in between.
\* the four files init loads with loadShader
ShaderFiles ==
    { "shaders/standard.vert", "shaders/standard.frag",
      "shaders/glass.vert", "shaders/glass.frag" }

InitApp ==
    /\ pc = "start"
    /\ LET g0 == initWebGL(env.ctxOk)
           std == createProgram(g0, env.compile.standard)
           gls == createProgram(std.gl, env.compile.glass)
           dbg == createProgram(gls.gl, env.compile.debug)
           tex == createTexture2D(dbg.gl, 512, 512)
       IN  IF g0.null
           THEN /\ gl' = g0
                /\ console' = console \cup { "WebGL2 not supported",
                                             "Failed to initialize WebGL2" }
                /\ errorShown' = TRUE
                /\ pc' = "stopped"
                /\ UNCHANGED << envVars, resizeListener, inputListeners, rafQueued,
                                progVars, fboVars, viewVars, camVars, uiVars,
                                frame, rebuilds, fetched, mathVars >>
           ELSE IF ~env.fetchOk
           THEN \* loadShader throws and the promise of init is rejected
                /\ gl' = g0
                /\ fetched' = { "shaders/standard.vert" }
                /\ pc' = "stopped"
                /\ UNCHANGED << envVars, resizeListener, inputListeners, rafQueued,
                                progVars, fboVars, viewVars, camVars, uiVars,
                                frame, console, errorShown, rebuilds, mathVars >>
           ELSE IF ProgramsMissing(std.program, gls.program)
           THEN /\ gl' = gls.gl
                /\ standardProgram' = std.program
                /\ glassProgram' = gls.program
                /\ console' = console \cup { "Failed to create shader programs" }
                /\ fetched' = ShaderFiles
                /\ pc' = "stopped"
                /\ UNCHANGED << envVars, resizeListener, inputListeners, rafQueued,
                                debugProgram, debugVao, baseTexture, fboVars, viewVars,
                                camVars, uiVars, frame, errorShown, rebuilds, mathVars >>
           ELSE /\ standardProgram' = std.program
                /\ glassProgram' = gls.program
                /\ debugProgram' = dbg.program
                /\ baseTexture' = tex.texture
                /\ debugVao' = IF dbg.program # Null THEN "debugVao" ELSE "none"
                /\ resizeListener' = TRUE
                /\ UNCHANGED << window, keysDown >>
                /\ \E complete \in BOOLEAN : handleResize(tex.gl, complete)
                /\ inputListeners' = TRUE
                /\ fetched' = ShaderFiles
                /\ rafQueued' = rafQueued + 1
                /\ pc' = "idle"
                /\ UNCHANGED << env, camVars, uiVars, frame, errorShown, rebuilds,
                                mathVars >>

(***************************************************************************)
(* Event handlers.  A handler or callback starts only when no other is     *)
(* running: JavaScript runs each to completion.                            *)
(***************************************************************************)
\* an event loop that would start a handler while a callback is running
EventLoopPreemptive == TRUE

EventLoopIdle == pc = "idle"

Dims == 1..MaxDim

\* the window takes the size w x h and the resize event runs handleResize
WindowResize(w, h, complete) ==
    /\ EventLoopIdle
    /\ resizeListener
    /\ SizeChanged(w, h) => rebuilds < MaxRebuilds
    /\ window' = [ innerWidth |-> w, innerHeight |-> h ]
    /\ handleResize(gl, complete)
    /\ rebuilds' = IF SizeChanged(w, h) THEN rebuilds + 1 ELSE rebuilds
    /\ UNCHANGED << env, keysDown, loopVars, progVars, camVars, uiVars, frame,
                    errorShown, fetched, mathVars >>

\* keydown 'KeyF' with e.repeat false
KeyDownF ==
    /\ EventLoopIdle
    /\ inputListeners
    /\ debugEnabled' = ~debugEnabled
    /\ UNCHANGED << envVars, loopVars, gl, progVars, fboVars, viewVars, camVars,
                    transparency, cubeDistance, miscVars, mathVars >>

(***************************************************************************)
(* setupInput (main.js): the handlers of pointerlockchange, mousemove,     *)
(* keydown and keyup.                                                      *)
(***************************************************************************)
\* camera.sensitivity = 0.002 radians per pixel, in thousandths
sensitivity == 2

\* const maxPitch = Math.PI / 2 - 0.01
maxPitch == quarterTurn - 10

Min(a, b) == IF a < b THEN a ELSE b

\* a mousemove handler that leaves the pitch as the movement made it
mouseMoveWithoutClamp(cam, input, movementX, movementY) ==
    IF ~input.pointerLocked
    THEN cam
    ELSE [ cam EXCEPT !.yaw = @ + movementX * sensitivity,
                      !.pitch = @ - movementY * sensitivity ]

\* the mousemove handler
mouseMove(cam, input, movementX, movementY) ==
    IF ~input.pointerLocked
    THEN cam
    ELSE [ cam EXCEPT !.yaw = @ + movementX * sensitivity,
                      !.pitch = Max(-maxPitch,
                                    Min(maxPitch, @ - movementY * sensitivity)) ]

\* the key codes the handlers move the camera with
MoveCodes == { "KeyW", "KeyS", "KeyA", "KeyD", "Space", "ShiftLeft", "ShiftRight" }

\* the keydown handler, for the codes that move the camera
keydown(input, code) ==
    CASE code = "KeyW" -> [ input EXCEPT !.forward = 1 ]
      [] code = "KeyS" -> [ input EXCEPT !.forward = -1 ]
      [] code = "KeyA" -> [ input EXCEPT !.right = -1 ]
      [] code = "KeyD" -> [ input EXCEPT !.right = 1 ]
      [] code = "Space" -> [ input EXCEPT !.up = 1 ]
      [] code \in { "ShiftLeft", "ShiftRight" } -> [ input EXCEPT !.up = -1 ]
      [] OTHER -> input

\* the keyup handler
keyup(input, code) ==
    CASE code \in { "KeyW", "KeyS" } -> [ input EXCEPT !.forward = 0 ]
      [] code \in { "KeyA", "KeyD" } -> [ input EXCEPT !.right = 0 ]
      [] code \in { "Space", "ShiftLeft", "ShiftRight" } -> [ input EXCEPT !.up = 0 ]
      [] OTHER -> input

\* the yaw the mouse may turn the camera to, in thousandths: two quarter turns
\* to either side
MaxYaw == 3140

\* the keys that may be held down at the same time
MaxHeld == 2

\* pointerlockchange: the lock is taken by the canvas or released
PointerLockChange(locked) ==
    /\ EventLoopIdle
    /\ inputListeners
    /\ inputState' = [ inputState EXCEPT !.pointerLocked = locked ]
    /\ UNCHANGED << envVars, loopVars, gl, progVars, fboVars, viewVars, camera,
                    lastTime, viewMatrix, uiVars, miscVars, mathVars >>

\* mousemove with e.movementX, e.movementY in pixels
MouseMove(movementX, movementY) ==
    /\ EventLoopIdle
    /\ inputListeners
    /\ Abs(mouseMove(camera, inputState, movementX, movementY).yaw) <= MaxYaw
    /\ camera' = mouseMove(camera, inputState, movementX, movementY)
    /\ UNCHANGED << envVars, loopVars, gl, progVars, fboVars, viewVars, inputState,
                    lastTime, viewMatrix, uiVars, miscVars, mathVars >>

\* a keydown handler that moves the camera at once
KeyDownMovingCamera(code) ==
    /\ EventLoopIdle
    /\ inputListeners
    /\ Cardinality(keysDown \cup { code }) <= MaxHeld
    /\ keysDown' = keysDown \cup { code }
    /\ inputState' = keydown(inputState, code)
    /\ camera' = updateCamera(camera, keydown(inputState, code), maxDeltaTime)
    /\ UNCHANGED << env, window, loopVars, gl, progVars, fboVars, viewVars,
                    lastTime, viewMatrix, uiVars, miscVars, mathVars >>

\* keydown of a movement key: the key goes down, or is held down and repeats
KeyDown(code) ==
    /\ EventLoopIdle
    /\ inputListeners
    /\ Cardinality(keysDown \cup { code }) <= MaxHeld
    /\ keysDown' = keysDown \cup { code }
    /\ inputState' = keydown(inputState, code)
    /\ UNCHANGED << env, window, loopVars, gl, progVars, fboVars, viewVars, camera,
                    lastTime, viewMatrix, uiVars, miscVars, mathVars >>

\* keyup of a movement key that was held down
KeyUp(code) ==
    /\ EventLoopIdle
    /\ inputListeners
    /\ code \in keysDown
    /\ keysDown' = keysDown \ { code }
    /\ inputState' = keyup(inputState, code)
    /\ UNCHANGED << env, window, loopVars, gl, progVars, fboVars, viewVars, camera,
                    lastTime, viewMatrix, uiVars, miscVars, mathVars >>

(***************************************************************************)
(* render (main.js), in the four sections of its body.  The sections run   *)
(* back to back inside one callback; pc is the position of the callback.   *)
(***************************************************************************)
\* standard uniforms that point the sampler at the unit of the reflection texture
StandardUniformsOnUnitOne(uModel, uView, uProj, uNormalMatrix, uCameraPos, uClipPlane) ==
    [ shader |-> "standard",
      uModel |-> uModel, uView |-> uView, uProj |-> uProj,
      uNormalMatrix |-> uNormalMatrix, uCameraPos |-> uCameraPos,
      uTransparency |-> 0, uBaseTex |-> 1, uClipPlane |-> uClipPlane ]

StandardUniforms(uModel, uView, uProj, uNormalMatrix, uCameraPos, uClipPlane) ==
    [ shader |-> "standard",
      uModel |-> uModel, uView |-> uView, uProj |-> uProj,
      uNormalMatrix |-> uNormalMatrix, uCameraPos |-> uCameraPos,
      uTransparency |-> 0, uBaseTex |-> 0, uClipPlane |-> uClipPlane ]

\* glass uniforms that take the view of the real camera for the reflection lookup
GlassUniformsOwnView(uModelMatrix, uViewMatrix, uProjectionMatrix, uReflectionViewMatrix, uReflectionProjectionMatrix, uTransparency, uCameraPos, uClipPlane) ==
    [ shader |-> "glass",
      uModelMatrix |-> uModelMatrix, uViewMatrix |-> uViewMatrix,
      uProjectionMatrix |-> uProjectionMatrix,
      uReflectionViewMatrix |-> uViewMatrix,
      uReflectionProjectionMatrix |-> uReflectionProjectionMatrix,
      uTransparency |-> uTransparency, uBaseTex |-> 0, uReflectionTex |-> 1,
      uCameraPos |-> uCameraPos, uClipPlane |-> uClipPlane ]

GlassUniforms(uModelMatrix, uViewMatrix, uProjectionMatrix, uReflectionViewMatrix, uReflectionProjectionMatrix, uTransparency, uCameraPos, uClipPlane) ==
    [ shader |-> "glass",
      uModelMatrix |-> uModelMatrix, uViewMatrix |-> uViewMatrix,
      uProjectionMatrix |-> uProjectionMatrix,
      uReflectionViewMatrix |-> uReflectionViewMatrix,
      uReflectionProjectionMatrix |-> uReflectionProjectionMatrix,
      uTransparency |-> uTransparency, uBaseTex |-> 0, uReflectionTex |-> 1,
      uCameraPos |-> uCameraPos, uClipPlane |-> uClipPlane ]

DebugUniforms == [ shader |-> "debug", uTex |-> 2 ]

\* opaque draw calls that keep the glass plane as clip plane in every pass
OpaqueClipPlaneEveryPass(pass) == clipPlane

\* the clip plane render passes to the opaque draw calls of a pass
OpaqueClipPlane(pass) == IF pass = "reflection" THEN clipPlane ELSE noClipPlane

\* deltaTime for a frame 'elapsed' quarter turns of the cube after the last
\* one (a quarter turn lasts pi/1.6 s, more than the cap)
DeltaTime(elapsed) == IF elapsed > 0 THEN maxDeltaTime ELSE 0

\* the cube model matrix: rotation with the translation written into it
CubeModel(now, distance) ==
    [ mat4RotateY(now) EXCEPT ![13] = -10, ![14] = 20, ![15] = distance ]

\* render, from its entry to the binding of the base texture.  The time is
\* kept modulo the rotation period of the cube, in quarter turns.
RenderBegin(elapsed) ==
    /\ EventLoopIdle
    /\ rafQueued > 0
    /\ rafQueued' = rafQueued - 1
    /\ \E cubeModel \in { CubeModel((lastTime + elapsed) % 4, cubeDistance) },
          sphereModel \in { mat4Multiply(mat4Translate(spherePosition), mat4Identity) } :
         LET now == (lastTime + elapsed) % 4
             deltaTime == DeltaTime(elapsed)
             g0 == Logged(EnterPass([ gl EXCEPT !.log = << >> ], "camera"), "updateCamera")
             g1 == glBindTexture(glActiveTexture(g0, 0), baseTexture)
         IN  /\ lastTime' = now
             /\ camera' = updateCamera(camera, inputState, deltaTime)
             /\ frame' = [ NoFrame EXCEPT
                              !.cubeModel = cubeModel,
                              !.sphereModel = sphereModel,
                              !.cubeNormalMatrix = NormalMatrix(cubeModel),
                              !.sphereNormalMatrix = NormalMatrix(sphereModel) ]
             /\ gl' = g1
    /\ pc' = "pass1"
    /\ UNCHANGED << envVars, resizeListener, inputListeners, progVars, fboVars,
                    viewVars, inputState, viewMatrix, uiVars, console, errorShown,
                    rebuilds, fetched, mathVars >>

\* the two opaque draw calls of a pass
DrawOpaque(g, uView, uCameraPos, uClipPlane) ==
    LET g1 == glBindVertexArray(glUseProgram(g, standardProgram), "cubeVao")
        g2 == setUniforms(g1, standardProgram,
                          StandardUniforms(frame.cubeModel, uView, projectionMatrix,
                                           frame.cubeNormalMatrix, uCameraPos, uClipPlane))
        g3 == glDrawElements(g2)
        g4 == glBindVertexArray(g3, "sphereVao")
        g5 == setUniforms(g4, standardProgram,
                          StandardUniforms(frame.sphereModel, uView, projectionMatrix,
                                           frame.sphereNormalMatrix, uCameraPos, uClipPlane))
    IN  glDrawElements(g5)

\* a reflection pass that flips the winding to CW for its draw calls
ReflectionPassFlippedWinding(g) ==
    LET g1 == glBindFramebuffer(EnterPass(g, "reflection"), reflectionFbo)
        g2 == glClear(glViewport(g1, fboWidth, fboHeight))
        m == MirroredCamera(camera.position, camera.forward, clipPlane)
        g3 == [ g2 EXCEPT !.frontFace = "CW", !.cullMode = "BACK" ]
        g4 == DrawOpaque(g3, m.mirroredView, m.mirroredPos, OpaqueClipPlane("reflection"))
    IN  [ g4 EXCEPT !.frontFace = "CCW" ]

\* Pass 1: reflection into FBO (no glass plane)
ReflectionPass(g) ==
    LET g1 == glBindFramebuffer(EnterPass(g, "reflection"), reflectionFbo)
        g2 == glClear(glViewport(g1, fboWidth, fboHeight))
        m == MirroredCamera(camera.position, camera.forward, clipPlane)
        g3 == [ g2 EXCEPT !.frontFace = "CCW", !.cullMode = "BACK" ]
        g4 == DrawOpaque(g3, m.mirroredView, m.mirroredPos, OpaqueClipPlane("reflection"))
    IN  [ g4 EXCEPT !.frontFace = "CCW" ]

RenderReflectionPass ==
    /\ pc = "pass1"
    /\ gl' = ReflectionPass(gl)
    /\ LET m == MirroredCamera(camera.position, camera.forward, clipPlane)
       IN  frame' = [ frame EXCEPT !.mirroredView = m.mirroredView,
                                   !.mirroredPos = m.mirroredPos ]
    /\ pc' = "pass2"
    /\ UNCHANGED << envVars, resizeListener, inputListeners, rafQueued, progVars,
                    fboVars, viewVars, camVars, uiVars, console, errorShown, rebuilds,
                    fetched, mathVars >>

\* a glass draw that leaves blending on and depth writes off behind it
DrawGlassWithoutRestore(g, uViewMatrix, eye) ==
    LET g1 == glBindVertexArray(glUseProgram(g, glassProgram), "planeVao")
        g2 == glBindTexture(glActiveTexture(g1, 1), reflectionColorTex)
        g3 == setUniforms(g2, glassProgram,
                          GlassUniforms(planeModel, uViewMatrix, projectionMatrix,
                                        frame.mirroredView, projectionMatrix,
                                        transparency, eye, clipPlane))
        g4 == [ g3 EXCEPT !.blend = TRUE,
                          !.blendFunc = << "SRC_ALPHA", "ONE_MINUS_SRC_ALPHA" >>,
                          !.depthMask = FALSE ]
    IN  glDrawElements(g4)

\* the glass plane, drawn with blending and without depth writes
DrawGlass(g, uViewMatrix, eye) ==
    LET g1 == glBindVertexArray(glUseProgram(g, glassProgram), "planeVao")
        g2 == glBindTexture(glActiveTexture(g1, 1), reflectionColorTex)
        g3 == setUniforms(g2, glassProgram,
                          GlassUniforms(planeModel, uViewMatrix, projectionMatrix,
                                        frame.mirroredView, projectionMatrix,
                                        transparency, eye, clipPlane))
        g4 == [ g3 EXCEPT !.blend = TRUE,
                          !.blendFunc = << "SRC_ALPHA", "ONE_MINUS_SRC_ALPHA" >>,
                          !.depthMask = FALSE ]
        g5 == glDrawElements(g4)
    IN  [ g5 EXCEPT !.depthMask = TRUE, !.blend = FALSE ]

\* a composite pass that draws the glass before the opaque objects
CompositePassGlassFirst(g) ==
    LET g1 == glBindFramebuffer(EnterPass(g, "composite"), Null)
        g2 == glClear(glViewport(g1, canvas.width, canvas.height))
        g3 == DrawGlass(g2, camera.viewMatrix, camera.position)
    IN  DrawOpaque(g3, camera.viewMatrix, camera.position, OpaqueClipPlane("composite"))

\* a composite pass that draws over what the target held before
CompositePassWithoutClear(g) ==
    LET g1 == glBindFramebuffer(EnterPass(g, "composite"), Null)
        g2 == glViewport(g1, canvas.width, canvas.height)
        g3 == DrawOpaque(g2, camera.viewMatrix, camera.position,
                         OpaqueClipPlane("composite"))
    IN  DrawGlass(g3, camera.viewMatrix, camera.position)

\* Pass 2: main scene
CompositePass(g) ==
    LET g1 == glBindFramebuffer(EnterPass(g, "composite"), Null)
        g2 == glClear(glViewport(g1, canvas.width, canvas.height))
        g3 == DrawOpaque(g2, camera.viewMatrix, camera.position,
                         OpaqueClipPlane("composite"))
    IN  DrawGlass(g3, camera.viewMatrix, camera.position)

RenderCompositePass ==
    /\ pc = "pass2"
    /\ viewMatrix' = camera.viewMatrix
    /\ gl' = CompositePass(gl)
    /\ pc' = "debug"
    /\ UNCHANGED << envVars, resizeListener, inputListeners, rafQueued, progVars,
                    fboVars, viewVars, camera, inputState, lastTime, uiVars, miscVars,
                    mathVars >>

\* if (debugEnabled && debugProgram && debugVao)
DebugWanted == debugEnabled /\ debugProgram # Null /\ debugVao # "none"

\* Debug quad overlay (F toggle)
DebugOverlay(g) ==
    LET g1 == [ EnterPass(g, "debug") EXCEPT !.depthTest = FALSE ]
        g2 == glBindVertexArray(glUseProgram(g1, debugProgram), debugVao)
        g3 == glBindTexture(glActiveTexture(g2, 2), reflectionColorTex)
        g4 == glDrawElements(setUniforms(g3, debugProgram, DebugUniforms))
    IN  [ glBindVertexArray(g4, "none") EXCEPT !.depthTest = TRUE ]

\* an end of render that does not request the next frame
RenderDebugOverlayWithoutRequest ==
    /\ pc = "debug"
    /\ gl' = IF DebugWanted THEN DebugOverlay(gl) ELSE gl
    /\ pc' = "idle"
    /\ UNCHANGED << envVars, resizeListener, inputListeners, rafQueued, progVars, fboVars,
                    viewVars, camVars, uiVars, miscVars, mathVars >>

\* the debug overlay when wanted, then requestAnimationFrame(render)
RenderDebugOverlay ==
    /\ pc = "debug"
    /\ gl' = IF DebugWanted THEN DebugOverlay(gl) ELSE gl
    /\ rafQueued' = rafQueued + 1
    /\ pc' = "idle"
    /\ UNCHANGED << envVars, resizeListener, inputListeners, progVars, fboVars,
                    viewVars, camVars, uiVars, miscVars, mathVars >>

(***************************************************************************)
(* The application: initial state and next-state relation.                 *)
(***************************************************************************)
\* outcomes of compiling the two stages and linking one program
Statuses ==
    { [ vs |-> TRUE, fs |-> TRUE, link |-> TRUE ],
      [ vs |-> FALSE, fs |-> TRUE, link |-> TRUE ],
      [ vs |-> TRUE, fs |-> FALSE, link |-> TRUE ],
      [ vs |-> TRUE, fs |-> TRUE, link |-> FALSE ] }

Environments ==
    [ ctxOk : BOOLEAN, fetchOk : BOOLEAN,
      compile : [ standard : Statuses, glass : Statuses, debug : Statuses ] ]

NoMathInput ==
    [ kind |-> "none", p |-> << 0, 0, 0 >>, v |-> << 0, 0, 0 >>,
      n |-> << 0, 0, 0 >>, d |-> 0, m |-> mat4Identity, b |-> mat4Identity, q |-> 0,
      pass |-> "none", tint |-> 0, refl |-> 0,
      tri |-> << 0, 0, 0 >>, w |-> << 0, 0, 0 >> ]

NoMathOutput == [ kind |-> "none" ]

\* the module-level declarations of main.js, before init() has run
AppInit ==
    /\ pc = "start"
    /\ keysDown = {}
    /\ resizeListener = FALSE
    /\ inputListeners = FALSE
    /\ rafQueued = 0
    /\ gl = NullContext
    /\ canvas = [ width |-> 0, height |-> 0 ]
    /\ camera = InitialCamera
    /\ inputState = InitialInputState
    /\ lastTime = 0
    /\ viewMatrix = mat4Identity
    /\ transparency = 50
    /\ cubeDistance = 25
    /\ debugEnabled = FALSE
    /\ standardProgram = Null
    /\ glassProgram = Null
    /\ debugProgram = Null
    /\ debugVao = "none"
    /\ baseTexture = Null
    /\ reflectionFbo = Null
    /\ reflectionColorTex = Null
    /\ reflectionDepth = Null
    /\ fboWidth = 0
    /\ fboHeight = 0
    /\ projectionMatrix = << 0, 0 >>
    /\ frame = NoFrame
    /\ console = {}
    /\ errorShown = FALSE
    /\ rebuilds = 0
    /\ fetched = {}

Init ==
    /\ env \in Environments
    /\ window \in [ innerWidth : Dims, innerHeight : Dims ]
    /\ AppInit
    /\ mathIn = NoMathInput
    /\ mathOut = NoMathOutput
    /\ mathPc = 0

Next ==
    \/ InitApp
    \/ \E w \in Dims, h \in Dims, complete \in BOOLEAN : WindowResize(w, h, complete)
    \/ KeyDownF
    \/ \E elapsed \in { 0, 1 } : RenderBegin(elapsed)
    \/ RenderReflectionPass
    \/ RenderCompositePass
    \/ RenderDebugOverlay

Spec == Init /\ [][Next]_vars

\* the browser runs a pending animation-frame callback at the next repaint,
\* and a callback that has started runs to its end: the position of render
\* advances.  The steps of Next that change pc this way are RenderBegin,
\* RenderReflectionPass, RenderCompositePass and RenderDebugOverlay.
FrameAdvance ==
    \/ pc = "idle" /\ rafQueued > 0 /\ pc' = "pass1"
    \/ pc = "pass1" /\ pc' = "pass2"
    \/ pc = "pass2" /\ pc' = "debug"
    \/ pc = "debug" /\ pc' = "idle"

\* the environments in which init reaches requestAnimationFrame(render): the
\* context exists, the shader files load, the two scene programs link; the
\* debug program links or not
LoopEnvironments ==
    { e \in Environments :
        /\ e.ctxOk /\ e.fetchOk
        /\ e.compile.standard = [ vs |-> TRUE, fs |-> TRUE, link |-> TRUE ]
        /\ e.compile.glass = [ vs |-> TRUE, fs |-> TRUE, link |-> TRUE ]
        /\ e.compile.debug.vs /\ e.compile.debug.fs }

LiveInit == Init /\ env \in LoopEnvironments

LiveSpec == LiveInit /\ [][Next]_vars /\ WF_pc(FrameAdvance)

(***************************************************************************)
(* The input handlers on their own, and the frames with input events       *)
(* between them.                                                           *)
(***************************************************************************)
\* a page on which init succeeds, in a window of 2 x 1
InputInit ==
    /\ Init
    /\ env \in LoopEnvironments
    /\ env.compile.debug.link
    /\ window = [ innerWidth |-> 2, innerHeight |-> 1 ]

\* mouse movements in pixels: none, a tenth of a turn to either side, and up
\* or down by more than the pitch has room for
MovementsX == { -314, 0, 314 }

MovementsY == { -1000, 0, 1000 }

InputNext ==
    \/ InitApp
    \/ \E locked \in BOOLEAN : PointerLockChange(locked)
    \/ \E movementX \in MovementsX, movementY \in MovementsY : MouseMove(movementX, movementY)
    \/ \E code \in MoveCodes : KeyDown(code)
    \/ \E code \in MoveCodes : KeyUp(code)
    \/ KeyDownF

InputSpec == InputInit /\ [][InputNext]_vars

\* the distance the camera may fly from where it starts, in tenths, summed
\* over the axes
MaxTravel == 3

Travel(position) ==
    Abs(position[1] - InitialCamera.position[1])
    + Abs(position[2] - InitialCamera.position[2])
    + Abs(position[3] - InitialCamera.position[3])

\* the frames of render with input events between them; the mouse turns the
\* camera by quarter turns, up to one from where it starts, and one key is
\* held at a time, so that the camera stays on the poses whose vectors have
\* whole components; a frame follows the last one at once or a full turn of
\* the cube later
EventNext ==
    \/ InitApp /\ reflectionFbo' # Null
    \/ \E locked \in BOOLEAN : PointerLockChange(locked)
    \/ \E movementX \in { -785, 785 } :
          /\ Abs(camera.yaw + movementX * sensitivity - InitialCamera.yaw) <= quarterTurn
          /\ MouseMove(movementX, 0)
    \/ \E code \in MoveCodes : keysDown = {} /\ KeyDown(code)
    \/ \E code \in MoveCodes : KeyUp(code)
    \/ KeyDownF
    \/ \E elapsed \in { 0, 4 } :
          /\ Travel(updateCamera(camera, inputState, DeltaTime(elapsed)).position) <= MaxTravel
          /\ RenderBegin(elapsed)
    \/ RenderReflectionPass
    \/ RenderCompositePass
    \/ RenderDebugOverlay

EventSpec == InputInit /\ [][EventNext]_vars

(***************************************************************************)
(* The pure functions on their own: an input is drawn from a bounded set   *)
(* and the functions under study are applied to it one call at a time.     *)
(***************************************************************************)
appVars == << envVars, loopVars, gl, progVars, fboVars, viewVars, camVars, uiVars,
              miscVars >>

Coords == -MaxCoord..MaxCoord

Points == { << x, y, z >> : x \in Coords, y \in Coords, z \in Coords }

\* the unit vectors along the axes
UnitVectors ==
    { << 1, 0, 0 >>, << -1, 0, 0 >>, << 0, 1, 0 >>, << 0, -1, 0 >>,
      << 0, 0, 1 >>, << 0, 0, -1 >> }

PointInputs ==
    { [ NoMathInput EXCEPT !.kind = "point", !.p = p, !.n = n, !.d = d ] :
        p \in Points, n \in UnitVectors, d \in Coords }

DirectionInputs ==
    { [ NoMathInput EXCEPT !.kind = "direction", !.v = v, !.n = n ] :
        v \in Points, n \in UnitVectors }

CameraPositions ==
    { << x, y, z >> : x \in { -MaxCoord, 0, MaxCoord }, y \in { -MaxCoord, 0, MaxCoord },
                      z \in { -MaxCoord, 0, MaxCoord } }
    \cup { << 0, 0, 5 >> }

CameraInputs ==
    { [ NoMathInput EXCEPT !.kind = "camera", !.p = p, !.v = v, !.n = n, !.d = d ] :
        p \in CameraPositions, v \in UnitVectors, n \in UnitVectors,
        d \in { -MaxCoord, 0, MaxCoord } }

Rotations == { mat4RotateY(q) : q \in 0..3 } \cup { mat4RotateX(q) : q \in 0..3 }

\* translation * rotation * scale, the scale possibly zero along an axis
AffineMatrices ==
    { mat4Multiply(mat4Scale(s), mat4Multiply(r, mat4Translate(t))) :
        s \in Points, r \in Rotations, t \in { << 0, 0, 0 >>, << 1, -MaxCoord, MaxCoord >> } }

\* view matrices, degenerate when forward is parallel to up
ViewMatrices ==
    { mat4LookAt(eye, vec3Add(eye, forward), << 0, 1, 0 >>) :
        eye \in CameraPositions, forward \in UnitVectors }

DenseMatrix ==
    << 1, 2, 0, 1,
       0, 1, 1, 0,
       2, 0, 1, 1,
       1, 1, 0, 2 >>

\* matrices that are not affine: one entry of a base matrix replaced
PerturbedMatrices ==
    { [ base EXCEPT ![i] = c ] :
        base \in { mat4Identity, DenseMatrix }, i \in 1..16, c \in Coords }

MatrixInputs ==
    { [ NoMathInput EXCEPT !.kind = "matrix", !.m = m ] :
        m \in AffineMatrices \cup ViewMatrices \cup PerturbedMatrices }

\* positions along the z axis, in steps of the cube's half-extent
ZPositions == { k * cubeSize : k \in (-2 * MaxCoord)..(2 * MaxCoord) }

\* model matrices of an opaque cube: translated, or as render builds cubeModel
ObjectModels ==
    { mat4Translate(<< 0, y, z >>) : y \in { 0, 20 }, z \in ZPositions }
    \cup { CubeModel(q, z) : q \in 0..3, z \in ZPositions }

FragmentInputs ==
    { [ NoMathInput EXCEPT !.kind = "fragment", !.m = m, !.pass = pass ] :
        m \in ObjectModels, pass \in { "reflection", "composite" } }

\* the factors of a product: rotations, translations, scales and a dense matrix
ProductMatrices ==
    Rotations
    \cup { mat4Translate(<< x, 0, z >>) : x \in { 1, MaxCoord }, z \in { 0, -MaxCoord } }
    \cup { mat4Scale(<< x, 1, z >>) : x \in { 2, -1 }, z \in { 1, MaxCoord } }
    \cup { DenseMatrix }

ProductInputs ==
    { [ NoMathInput EXCEPT !.kind = "product", !.m = a, !.b = b ] :
        a \in ProductMatrices, b \in ProductMatrices }

\* the unit vectors with integer components in fifths: the axes and the
\* directions (3,4,0)/5 in every order and sign
UnitFifths ==
    { u \in { << x, y, z >> : x \in -One..One, y \in -One..One, z \in -One..One } :
        vec3Dot(u, u) = One * One }

\* glass fragments: n is vNormal, p is vPosition, v is uCameraPos (the fragment
\* seen from the direction u at distance 2), d is uTransparency in fifths
GlassInputs ==
    { [ NoMathInput EXCEPT !.kind = "glass", !.n = n, !.p = p,
                           !.v = vec3Add(p, vec3Scale(u, 2)), !.d = t,
                           !.tint = tint, !.refl = refl ] :
        n \in { << 0, 0, -5 >>, << 0, 0, 5 >>, << 3, 4, 0 >>, << 0, -4, 3 >> },
        p \in { << 0, 0, 0 >>, << 10, -5, 0 >> },
        u \in UnitFifths, t \in 0..One, tint \in { 1, 4 }, refl \in { 0, 3 } }

\* the weights, in tenths, of a fragment inside its triangle
Weights == { << 6, 2, 2 >>, << 2, 6, 2 >>, << 2, 2, 6 >>, << 4, 4, 2 >> }

\* a varying interpolated over the triangle at the weights w
Interpolate(w, va, vb, vc) ==
    << Quot(w[1] * va[1] + w[2] * vb[1] + w[3] * vc[1], 10),
       Quot(w[1] * va[2] + w[2] * vb[2] + w[3] * vc[2], 10),
       Quot(w[1] * va[3] + w[2] * vb[3] + w[3] * vc[3], 10) >>

\* the vertex stage of the glass draw for vertex i of the plane mesh
PlaneVertex(i) ==
    GlassVertexShader(planeModel, clipPlane, planeMesh.positions[i], planeMesh.normals[i])

\* the world position of the fragment of triangle tri at the weights w
PlaneFragmentPosition(tri, w) ==
    Interpolate(w, PlaneVertex(tri[1]).vPosition, PlaneVertex(tri[2]).vPosition,
                PlaneVertex(tri[3]).vPosition)

\* glass draws: a triangle of the plane mesh, a fragment of it, and the
\* camera v at distance 1 or 3 from the fragment in the direction u
GlassDrawInputs ==
    { [ NoMathInput EXCEPT !.kind = "glassdraw", !.tri = tri, !.w = w,
                           !.v = vec3Add(PlaneFragmentPosition(tri, w), vec3Scale(u, s)),
                           !.d = t ] :
        tri \in planeMesh.indices, w \in Weights, u \in UnitFifths, s \in { 2, 6 },
        t \in { 0, 2 } }

\* glass fragments with their clip-space position under the mirrored camera:
\* p is << x, y, w >> of vReflectionClipPos in hundredths
ReflectionSampleInputs ==
    { [ NoMathInput EXCEPT !.kind = "reflsample", !.p = << x, y, w >>, !.tint = tint ] :
        x \in { -300, -100, 0, 50, 100, 300 }, y \in { -300, -100, 0, 50, 100, 300 },
        w \in { -100, 0, 1, 2, 100 }, tint \in { 2, 4 } }

MathInputs ==
    GlassDrawInputs \cup ReflectionSampleInputs \cup PointInputs \cup DirectionInputs \cup CameraInputs \cup MatrixInputs
    \cup FragmentInputs \cup ProductInputs \cup GlassInputs

MathInit ==
    /\ env = [ ctxOk |-> TRUE, fetchOk |-> TRUE,
               compile |-> [ standard |-> [ vs |-> TRUE, fs |-> TRUE, link |-> TRUE ],
                             glass |-> [ vs |-> TRUE, fs |-> TRUE, link |-> TRUE ],
                             debug |-> [ vs |-> TRUE, fs |-> TRUE, link |-> TRUE ] ] ]
    /\ window = [ innerWidth |-> 1, innerHeight |-> 1 ]
    /\ AppInit
    /\ mathIn \in MathInputs
    /\ mathOut = NoMathOutput
    /\ mathPc = 0

\* reflectPointAcrossPlane applied to the input, then to its own result
ReflectPoint ==
    /\ mathIn.kind = "point"
    /\ mathPc \in { 0, 1 }
    /\ mathOut' = [ kind |-> "point",
                    value |-> reflectPointAcrossPlane(
                                  IF mathPc = 0 THEN mathIn.p ELSE mathOut.value,
                                  mathIn.n, mathIn.d) ]
    /\ mathPc' = mathPc + 1
    /\ UNCHANGED << appVars, mathIn >>

\* reflectDirectionAcrossPlane applied to the input, then to its own result
ReflectDirection ==
    /\ mathIn.kind = "direction"
    /\ mathPc \in { 0, 1 }
    /\ mathOut' = [ kind |-> "direction",
                    value |-> reflectDirectionAcrossPlane(
                                  IF mathPc = 0 THEN mathIn.v ELSE mathOut.value,
                                  mathIn.n) ]
    /\ mathPc' = mathPc + 1
    /\ UNCHANGED << appVars, mathIn >>

\* the mirrored camera of render for the input camera and plane
MirrorCamera ==
    /\ mathIn.kind = "camera"
    /\ mathPc = 0
    /\ mathOut' = MirroredCamera(mathIn.p, mathIn.v,
                                 << mathIn.n[1], mathIn.n[2], mathIn.n[3], mathIn.d >>)
    /\ mathPc' = 1
    /\ UNCHANGED << appVars, mathIn >>

\* const inv = mat4Invert(m)
InvertMatrix ==
    /\ mathIn.kind = "matrix"
    /\ mathPc = 0
    /\ mathOut' = [ kind |-> "matrix", inverse |-> mat4Invert(mathIn.m),
                    product |-> mat4Identity ]
    /\ mathPc' = 1
    /\ UNCHANGED << appVars, mathIn >>

\* testMath: mat4Multiply(m, inv), on the numerators of inv
MultiplyInverse ==
    /\ mathIn.kind = "matrix"
    /\ mathPc = 1
    /\ mathOut' = [ mathOut EXCEPT !.product = mat4Multiply(mathIn.m, mathOut.inverse.num) ]
    /\ mathPc' = 2
    /\ UNCHANGED << appVars, mathIn >>

\* render: the normal matrix of the model matrix m
ComputeNormalMatrix ==
    /\ mathIn.kind = "matrix"
    /\ mathPc = 0
    /\ mathOut' = [ kind |-> "normal", normalMatrix |-> NormalMatrix(mathIn.m) ]
    /\ mathPc' = 3
    /\ UNCHANGED << appVars, mathIn >>

\* one opaque draw call of a pass: every corner of the cube through the
\* standard shader
DrawCubeVertices ==
    /\ mathIn.kind = "fragment"
    /\ mathPc = 0
    /\ mathOut' = [ kind |-> "fragment",
                    fragments |-> [ c \in CubeCorners |->
                        StandardShader(mathIn.m, OpaqueClipPlane(mathIn.pass), c) ] ]
    /\ mathPc' = 1
    /\ UNCHANGED << appVars, mathIn >>

\* mat4Multiply(a, b)
MultiplyMatrices ==
    /\ mathIn.kind = "product"
    /\ mathPc = 0
    /\ mathOut' = [ kind |-> "product", value |-> mat4Multiply(mathIn.m, mathIn.b) ]
    /\ mathPc' = 1
    /\ UNCHANGED << appVars, mathIn >>

\* glass.frag main for one fragment of the glass
ShadeGlassFragment ==
    /\ mathIn.kind = "glass"
    /\ mathPc = 0
    /\ mathOut' = GlassFragmentShader(mathIn.n, mathIn.p, ClipDist(clipPlane, mathIn.p),
                                      mathIn.v, mathIn.d, mathIn.tint, mathIn.refl)
    /\ mathPc' = 1
    /\ UNCHANGED << appVars, mathIn >>

\* the glass draw of render for one fragment: the three vertices through
\* glass.vert, the face test of the rasteriser, the interpolated varyings
\* through glass.frag
DrawGlassFragment ==
    /\ mathIn.kind = "glassdraw"
    /\ mathPc = 0
    /\ \E va \in { PlaneVertex(mathIn.tri[1]) }, vb \in { PlaneVertex(mathIn.tri[2]) },
          vc \in { PlaneVertex(mathIn.tri[3]) } :
          LET vPosition == Interpolate(mathIn.w, va.vPosition, vb.vPosition, vc.vPosition)
              vNormal == Interpolate(mathIn.w, va.vNormal, vb.vNormal, vc.vNormal)
              vClipDist == Quot(mathIn.w[1] * va.vClipDist + mathIn.w[2] * vb.vClipDist +
                                mathIn.w[3] * vc.vClipDist, 10)
              frag == GlassFragmentShader(vNormal, vPosition, vClipDist, mathIn.v,
                                          mathIn.d, 1, 3)
          IN  mathOut' = [ kind |-> "glassdraw",
                           rasterised |-> /\ FrontFacing(va.vPosition, vb.vPosition,
                                                         vc.vPosition, mathIn.v)
                                          /\ ~frag.discarded,
                           vPosition |-> vPosition,
                           frag |-> frag ]
    /\ mathPc' = 1
    /\ UNCHANGED << appVars, mathIn >>

\* the reflection sample of glass.frag for one fragment
SampleReflection ==
    /\ mathIn.kind = "reflsample"
    /\ mathPc = 0
    /\ mathOut' = ReflectionColor(mathIn.p, mathIn.tint)
    /\ mathPc' = 1
    /\ UNCHANGED << appVars, mathIn >>

MathNext ==
    \/ DrawGlassFragment
    \/ SampleReflection
    \/ ReflectPoint
    \/ ReflectDirection
    \/ MirrorCamera
    \/ InvertMatrix
    \/ MultiplyInverse
    \/ ComputeNormalMatrix
    \/ DrawCubeVertices
    \/ MultiplyMatrices
    \/ ShadeGlassFragment

MathSpec == MathInit /\ [][MathNext]_vars

(***************************************************************************)
(* Properties of the application (Spec).                                   *)
(***************************************************************************)
\* C1: the operations of a frame are issued in the order camera update,
\* reflection pass (bind the reflection framebuffer, clear, two opaque
\* draws), composite pass (bind the default framebuffer, clear, two opaque
\* draws, the glass draw), optional debug overlay.  The log of the frame is
\* always a prefix of that order, each section of render leaves the log at
\* the end of its part, every reflection-pass operation targets the
\* reflection framebuffer and every composite-pass operation the default
\* one, and the glass is the last draw of the composite pass.
C1_FrameOrder ==
    LET order == << << "camera", "updateCamera" >>,
                    << "reflection", "bindFramebuffer" >>,
                    << "reflection", "clear" >>,
                    << "reflection", "drawElements" >>,
                    << "reflection", "drawElements" >>,
                    << "composite", "bindFramebuffer" >>,
                    << "composite", "clear" >>,
                    << "composite", "drawElements" >>,
                    << "composite", "drawElements" >>,
                    << "composite", "drawElements" >>,
                    << "debug", "drawElements" >> >>
        n == Len(gl.log)
    IN  /\ n <= Len(order)
        /\ \A i \in 1..n : << gl.log[i].pass, gl.log[i].op >> = order[i]
        /\ pc \in { "start", "stopped" } => n = 0
        /\ pc = "pass1" => n = 1
        /\ pc = "pass2" => n = 5
        /\ pc = "debug" => n = 10
        /\ pc = "idle" => n \in { 0, 10, 11 }
        /\ \A i \in 1..n :
              /\ gl.log[i].pass = "reflection" =>
                    /\ gl.log[i].framebuffer = reflectionFbo \/ pc = "idle"
                    /\ gl.log[i].op = "drawElements" =>
                          gl.log[i].program = standardProgram
              /\ gl.log[i].pass = "composite" => gl.log[i].framebuffer = Null
        /\ n >= 10 => /\ gl.log[8].program = standardProgram
                      /\ gl.log[9].program = standardProgram
                      /\ gl.log[10].program = glassProgram
                      /\ gl.log[10].vao = "planeVao"

\* a frame with the debug overlay has run to its end
C1_Witness == pc = "idle" /\ Len(gl.log) = 11 /\ gl.log[11].pass = "debug"

C5_ResizeOnlyAtFrameBoundary ==
    [][ /\ pc \in { "pass1", "pass2", "debug" } =>
              UNCHANGED << window, canvas, projectionMatrix, fboVars, rebuilds >>
        /\ (pc # "start" /\ << canvas, projectionMatrix, fboVars >>' #
                            << canvas, projectionMatrix, fboVars >>) =>
              (pc = "idle" /\ pc' = "idle") ]_vars

\* a frame is being rendered after a resize event has rebuilt the target
C5_Witness == pc = "pass2" /\ rebuilds > 0

\* C6: while a frame is being rendered with reflectionFbo null, no
\* reflection-pass draw call has been issued.
C6_NoReflectionDrawWithoutFbo ==
    pc \in { "pass2", "debug" } =>
        \A i \in 1..Len(gl.log) :
            (gl.log[i].pass = "reflection" /\ gl.log[i].op = "drawElements") =>
                reflectionFbo # Null

\* C7: createProgram returns a program exactly when both stages compile and
\* the program links; when the standard or the glass program is missing
\* init has stopped without listeners and without a frame request and
\* nothing was drawn; every draw call is issued with a program in use, and
\* the debug overlay only with a debug program.
C7_NoRenderWithoutPrograms ==
    LET AllOk(status) == status.vs /\ status.fs /\ status.link
        created == pc # "start" /\ env.ctxOk /\ env.fetchOk
    IN  /\ created => /\ standardProgram # Null <=> AllOk(env.compile.standard)
                      /\ glassProgram # Null <=> AllOk(env.compile.glass)
        /\ pc \in { "idle", "pass1", "pass2", "debug" } =>
              (debugProgram # Null <=> AllOk(env.compile.debug))
        /\ (pc # "start" /\ (standardProgram = Null \/ glassProgram = Null)) =>
              /\ pc = "stopped"
              /\ ~resizeListener
              /\ ~inputListeners
              /\ rafQueued = 0
              /\ gl.log = << >>
        /\ \A i \in 1..Len(gl.log) :
              /\ gl.log[i].op = "drawElements" => gl.log[i].program # Null
              /\ gl.log[i].pass = "debug" => debugProgram # Null

\* init stopped because the glass program did not link
C7_Witness ==
    /\ pc = "stopped"
    /\ env.ctxOk
    /\ env.fetchOk
    /\ standardProgram # Null
    /\ glassProgram = Null
    /\ ~env.compile.glass.link

(***************************************************************************)
(* Properties of the pure functions (MathSpec).                            *)
(***************************************************************************)
\* C2: the mirrored camera is at p - 2(n.p + d)n, looks along v - 2(n.v)n
\* with up (0,1,0) - 2(n.(0,1,0))n, neither direction depending on d, and
\* its view matrix is lookAt(mirroredPos, mirroredPos + mirroredForward,
\* mirroredUp); for the plane (0,0,1,0) the camera at (0,0,5) looking toward
\* (0,0,-1) is mirrored to (0,0,-5) looking toward (0,0,1).
C2_MirroredCamera ==
    (mathIn.kind = "camera" /\ mathPc = 1) =>
        LET p == mathIn.p
            v == mathIn.v
            n == mathIn.n
            d == mathIn.d
            np == n[1] * p[1] + n[2] * p[2] + n[3] * p[3]
            nv == n[1] * v[1] + n[2] * v[2] + n[3] * v[3]
            pos == << p[1] - 2 * (np + d) * n[1], p[2] - 2 * (np + d) * n[2],
                      p[3] - 2 * (np + d) * n[3] >>
            fwd == << v[1] - 2 * nv * n[1], v[2] - 2 * nv * n[2],
                      v[3] - 2 * nv * n[3] >>
            up == << 0 - 2 * n[2] * n[1], 1 - 2 * n[2] * n[2], 0 - 2 * n[2] * n[3] >>
            target == << pos[1] + fwd[1], pos[2] + fwd[2], pos[3] + fwd[3] >>
        IN  /\ mathOut.mirroredPos = pos
            /\ mathOut.mirroredForward = fwd
            /\ mathOut.mirroredUp = up
            /\ mathOut.mirroredTarget = target
            /\ mathOut.mirroredView = mat4LookAt(pos, target, up)
            /\ (p = << 0, 0, 5 >> /\ v = << 0, 0, -1 >> /\ n = << 0, 0, 1 >> /\ d = 0) =>
                  /\ mathOut.mirroredPos = << 0, 0, -5 >>
                  /\ mathOut.mirroredForward = << 0, 0, 1 >>

\* the camera at (0,0,5) looking toward (0,0,-1), mirrored in the plane z = 0
C2_Witness ==
    /\ mathIn.kind = "camera"
    /\ mathPc = 1
    /\ mathIn.p = << 0, 0, 5 >>
    /\ mathIn.v = << 0, 0, -1 >>
    /\ mathIn.n = << 0, 0, 1 >>
    /\ mathIn.d = 0
    /\ mathOut.mirroredPos = << 0, 0, -5 >>

\* C3: in the reflection pass a vertex of an opaque drawable at world
\* position w is discarded exactly when dot((0,0,1,0), (w,1)) < 0 and kept
\* when it is >= 0; every corner of a cube at (0,0,-2) is discarded and no
\* corner of a cube at (0,0,2) is.
C3_ClipDiscard ==
    (mathIn.kind = "fragment" /\ mathPc = 1 /\ mathIn.pass = "reflection") =>
        /\ \A c \in CubeCorners :
              LET f == mathOut.fragments[c]
                  w == f.vPositionWorld
                  dist == 0 * w[1] + 0 * w[2] + 1 * w[3] + 0 * 1
              IN  /\ f.discarded <=> dist < 0
                  /\ dist >= 0 => ~f.discarded
        /\ mathIn.m = mat4Translate(<< 0, 0, -20 >>) =>
              \A c \in CubeCorners :
                  /\ mathOut.fragments[c].vPositionWorld = << c[1], c[2], c[3] - 20 >>
                  /\ mathOut.fragments[c].discarded
        /\ mathIn.m = mat4Translate(<< 0, 0, 20 >>) =>
              \A c \in CubeCorners :
                  /\ mathOut.fragments[c].vPositionWorld = << c[1], c[2], c[3] + 20 >>
                  /\ ~mathOut.fragments[c].discarded

\* a cube touching the plane from behind in the reflection pass: the corners
\* on the plane are kept, the others are discarded
C3_Witness ==
    /\ mathIn.kind = "fragment"
    /\ mathPc = 1
    /\ mathIn.pass = "reflection"
    /\ \E c \in CubeCorners : /\ mathOut.fragments[c].vPositionWorld[3] = 0
                              /\ ~mathOut.fragments[c].discarded
    /\ \E c \in CubeCorners : mathOut.fragments[c].discarded

\* C8: reflectPointAcrossPlane applied twice with the same unit normal and
\* distance returns the point, reflectDirectionAcrossPlane applied twice
\* with the same unit normal returns the direction.
C8_ReflectionInvolution ==
    /\ (mathIn.kind = "point" /\ mathPc = 2) => mathOut.value = mathIn.p
    /\ (mathIn.kind = "direction" /\ mathPc = 2) => mathOut.value = mathIn.v

\* a point off the plane, with a plane off the origin, reflected twice
C8_Witness ==
    /\ mathIn.kind = "point"
    /\ mathPc = 2
    /\ mathIn.d # 0
    /\ vec3Dot(mathIn.n, mathIn.p) + mathIn.d # 0
    /\ mathOut.value = mathIn.p

\* C9: for a matrix m with a determinant other than zero, mat4Multiply(m,
\* mat4Invert(m)) is the identity: with the inverse kept as num/den, the
\* product of m and num is den times the identity, and den is |det| > 0.
C9_InverseProduct ==
    (mathIn.kind = "matrix" /\ mathPc = 2 /\ mathOut.inverse.divided) =>
        /\ mathOut.inverse.den > 0
        /\ mathOut.product = [ i \in 1..16 |-> mathOut.inverse.den * mat4Identity[i] ]

\* a matrix that is not affine, with a determinant other than 1 or -1
C9_Witness ==
    /\ mathIn.kind = "matrix"
    /\ mathPc = 2
    /\ mathOut.inverse.divided
    /\ mathOut.inverse.den > 1
    /\ mathIn.m[4] # 0

\* C10: when the determinant of the argument is zero mat4Invert warns and
\* returns the identity without dividing, otherwise it divides by a
\* determinant that is not zero and does not warn; the argument is left as
\* it was, and the normal matrix of a singular model matrix is the identity.
C10_SingularToIdentity ==
    LET det == Determinant(mathIn.m, Cofactors(mathIn.m))
    IN  /\ (mathIn.kind = "matrix" /\ mathPc \in { 1, 2 }) =>
              /\ det = 0 => /\ mathOut.inverse.num = mat4Identity
                            /\ mathOut.inverse.den = 1
                            /\ mathOut.inverse.warned
                            /\ ~mathOut.inverse.divided
              /\ det # 0 => /\ ~mathOut.inverse.warned
                            /\ mathOut.inverse.divided
              /\ mathOut.inverse.divided => mathOut.inverse.divisor # 0
              /\ mathOut.inverse.arg = mathIn.m
        /\ (mathIn.kind = "matrix" /\ mathPc = 3 /\ det = 0) =>
              mathOut.normalMatrix = [ num |-> mat4Identity, den |-> 1 ]

\* a singular matrix other than the zero matrix has been inverted
C10_Witness ==
    /\ mathIn.kind = "matrix"
    /\ mathPc = 1
    /\ mathOut.inverse.warned
    /\ mathIn.m[1] # 0
    /\ mathIn.m[16] # 0

\* C11: mat4Multiply(A, B) is the product A.B of column-major matrices: with
\* the element in row r and column c stored at index r + 4c, the result R has
\* R(r,c) = sum over k of A(r,k) * B(k,c).
C11_ColumnMajorProduct ==
    (mathIn.kind = "product" /\ mathPc = 1) =>
        \A r \in 0..3, c \in 0..3 :
            mathOut.value[r + 4 * c + 1] =
                mathIn.m[r + 4 * 0 + 1] * mathIn.b[0 + 4 * c + 1] +
                mathIn.m[r + 4 * 1 + 1] * mathIn.b[1 + 4 * c + 1] +
                mathIn.m[r + 4 * 2 + 1] * mathIn.b[2 + 4 * c + 1] +
                mathIn.m[r + 4 * 3 + 1] * mathIn.b[3 + 4 * c + 1]

\* C12: with d = dot(N, V), fresnel is (1 - max(d, 0))^3: it is 0 for d = 1,
\* 1 for d = 0 and 1 for every d < 0; the colour mix(tintedBase, reflColor,
\* fresnel) is the tinted base at fresnel = 0 and the reflection colour at
\* fresnel = 1.  N and V are unit vectors in fifths, d is counted in 25ths,
\* fresnel and the colour in units of 1 / 15625.
C12_FresnelAndMix ==
    (mathIn.kind = "glass" /\ mathPc = 1) =>
        LET d == mathOut.N[1] * mathOut.V[1] + mathOut.N[2] * mathOut.V[2] +
                 mathOut.N[3] * mathOut.V[3]
            f == mathOut.fresnel
        IN  /\ 2 * d = vec3Dot(mathIn.n, vec3Subtract(mathIn.v, mathIn.p))
            /\ d >= 0 => f = (25 - d) * (25 - d) * (25 - d)
            /\ d = 25 => f = 0
            /\ d = 0 => f = 15625
            /\ d < 0 => f = 15625
            /\ mathOut.color = mathIn.tint * (15625 - f) + mathIn.refl * f
            /\ f = 0 => mathOut.color = 15625 * mathIn.tint
            /\ f = 15625 => mathOut.color = 15625 * mathIn.refl

\* a fragment seen head-on, whose two colours differ
C12_Witness ==
    /\ mathIn.kind = "glass"
    /\ mathPc = 1
    /\ vec3Dot(mathOut.N, mathOut.V) = 25
    /\ mathOut.fresnel = 0
    /\ mathIn.tint # mathIn.refl
    /\ mathOut.color = 15625 * mathIn.tint

\* C13: the glass alpha is (1 - t) * (0.2 + 0.8 f) and lies in [0,1]; it is
\* 0 for t = 1 and f = 0, 0.2 for t = 0 and f = 0, and at least 0.2 for
\* t = 0.  t is counted in fifths, f in units of 1 / 15625 and alpha in
\* units of 1 / (5 * 10 * 15625).
C13_GlassAlpha ==
    (mathIn.kind = "glass" /\ mathPc = 1) =>
        LET t == mathIn.d
            f == mathOut.fresnel
            one == 5 * 10 * 15625
        IN  /\ t \in 0..5
            /\ f \in 0..15625
            /\ mathOut.alpha = (5 - t) * (2 * 15625 + 8 * f)
            /\ mathOut.alpha >= 0
            /\ mathOut.alpha <= one
            /\ (t = 5 /\ f = 0) => mathOut.alpha = 0
            /\ (t = 0 /\ f = 0) => 5 * mathOut.alpha = one
            /\ t = 0 => 5 * mathOut.alpha >= one

\* an opaque setting (t = 0) seen head-on: alpha is the floor 0.2
C13_Witness ==
    /\ mathIn.kind = "glass"
    /\ mathPc = 1
    /\ mathIn.d = 0
    /\ mathOut.fresnel = 0
    /\ 5 * mathOut.alpha = AlphaOne

\* C14: every glass fragment of the plane mesh under rotateX(-pi/2) that is
\* rasterised (its triangle faces the camera, back faces culled, front faces
\* CCW) has its shading normal N on the camera's side, dot(N, V) > 0, and a
\* camera looking at the glass head-on (V along the axis of the glass) gets
\* fresnel = 0.
C14_NormalFacesCamera ==
    (mathIn.kind = "glassdraw" /\ mathPc = 1 /\ mathOut.rasterised) =>
        /\ vec3Dot(mathOut.frag.N, mathOut.frag.V) > 0
        /\ (mathOut.frag.V[1] = 0 /\ mathOut.frag.V[2] = 0) => mathOut.frag.fresnel = 0

\* the draw calls of the frame issued with the standard program
OpaqueDraws ==
    { i \in DOMAIN gl.log : /\ gl.log[i].op = "drawElements"
                            /\ gl.log[i].uniforms.shader = "standard" }

\* C15: at every opaque draw call of the reflection pass uClipPlane is the
\* glass plane (0,0,1,0), the plane the camera of that draw call was mirrored
\* across; at every opaque draw call of the composite pass it is (0,0,0,1),
\* whose clip distance is 1 at every world position, so nothing is discarded;
\* no opaque draw call runs with the clip plane of another pass.
C15_ClipPlanePerDraw ==
    \A i \in OpaqueDraws :
        LET u == gl.log[i].uniforms
        IN  /\ gl.log[i].pass \in { "reflection", "composite" }
            /\ gl.log[i].pass = "reflection" =>
                  /\ u.uClipPlane = << 0, 0, 1, 0 >>
                  /\ \E m \in { MirroredCamera(camera.position, camera.forward, u.uClipPlane) } :
                        u.uView = m.mirroredView /\ u.uCameraPos = m.mirroredPos
            /\ gl.log[i].pass = "composite" =>
                  /\ u.uClipPlane = << 0, 0, 0, 1 >>
                  /\ \A p \in Points : /\ ClipDist(u.uClipPlane, p) = 1
                                       /\ ~Discarded(ClipDist(u.uClipPlane, p))

\* a finished frame with its four opaque draw calls, two per pass
C15_Witness ==
    /\ pc = "idle"
    /\ reflectionFbo # Null
    /\ Cardinality({ i \in OpaqueDraws : /\ gl.log[i].pass = "reflection"
                                         /\ gl.log[i].uniforms.uClipPlane = clipPlane }) = 2
    /\ Cardinality({ i \in OpaqueDraws : /\ gl.log[i].pass = "composite"
                                         /\ gl.log[i].uniforms.uClipPlane = noClipPlane }) = 2

\* the glass draw call of the frame
GlassDraws ==
    { i \in DOMAIN gl.log : /\ gl.log[i].op = "drawElements"
                            /\ gl.log[i].uniforms.shader = "glass" }

\* C16: the glass draw call is the only draw call executed with blending
\* enabled (SRC_ALPHA, ONE_MINUS_SRC_ALPHA) and depth writes disabled, and it
\* runs with the depth test enabled; right after it depth writes are on and
\* blending is off again, so at the start of every frame, at every clear, at
\* every opaque draw call and at the debug overlay blending is off and depth
\* writes are on; the depth test is enabled at the start of every frame,
\* whether or not the debug overlay was drawn.
C16_BlendAndDepthState ==
    /\ \A i \in DOMAIN gl.log :
          LET e == gl.log[i]
          IN  /\ i \in GlassDraws =>
                    /\ e.blend
                    /\ e.blendFunc = << "SRC_ALPHA", "ONE_MINUS_SRC_ALPHA" >>
                    /\ ~e.depthMask
                    /\ e.depthTest
                    /\ e.pass = "composite" /\ e.vao = "planeVao"
              /\ i \notin GlassDraws => (~e.blend /\ e.depthMask)
              /\ e.op = "updateCamera" => e.depthTest
    /\ (pc \in { "idle", "pass1", "pass2", "debug" }) => (~gl.blend /\ gl.depthMask)
    /\ (pc \in { "idle", "pass1" }) => gl.depthTest

\* the end of a frame in which the glass and then the debug overlay were drawn
C16_Witness ==
    /\ pc = "idle"
    /\ GlassDraws # {}
    /\ \E i \in DOMAIN gl.log : /\ gl.log[i].op = "drawElements"
                                /\ gl.log[i].pass = "debug"
                                /\ ~gl.log[i].depthTest
                                /\ \E j \in GlassDraws : j < i
    /\ gl.depthTest /\ ~gl.blend /\ gl.depthMask

\* the texture units the fragment shader of a draw call samples: uBaseTex in
\* standard.frag, uBaseTex and uReflectionTex in glass.frag, uTex in the
\* debug shader
SamplerUnits(uniforms) ==
    IF uniforms.shader = "standard" THEN { uniforms.uBaseTex }
    ELSE IF uniforms.shader = "glass" THEN { uniforms.uBaseTex, uniforms.uReflectionTex }
    ELSE IF uniforms.shader = "debug" THEN { uniforms.uTex }
    ELSE {}

\* the draw calls of the frame that sample the color texture of the
\* reflection buffer
ReflectionReads ==
    { i \in DOMAIN gl.log :
        /\ gl.log[i].op = "drawElements"
        /\ reflectionColorTex # Null
        /\ \E unit \in SamplerUnits(gl.log[i].uniforms) :
              gl.log[i].units[unit + 1] = reflectionColorTex }

\* the clears and draw calls of the frame that go into the reflection FBO
ReflectionWrites ==
    { i \in DOMAIN gl.log :
        /\ gl.log[i].op \in { "clear", "drawElements" }
        /\ reflectionFbo # Null
        /\ gl.log[i].framebuffer = reflectionFbo }

\* C17: within every frame the reflection pass is the sole writer of the
\* reflection buffer, the composite pass is the sole reader of its color
\* texture (no other pass or draw call samples reflectionColorTex), and
\* every read comes after the write of the same frame.
C17_SoleWriterSoleReader ==
    /\ \A i \in ReflectionWrites : gl.log[i].pass = "reflection"
    /\ \A i \in ReflectionReads :
          /\ gl.log[i].pass = "composite"
          /\ \E j \in ReflectionWrites : j < i /\ gl.log[j].op = "drawElements"

(***************************************************************************)
(* The application together with the pure functions: a behaviour is either *)
(* a run of the application or one application of a function to an input.  *)
(***************************************************************************)
WholeInit == Init \/ MathInit

WholeNext ==
    \/ mathIn.kind = "none" /\ Next
    \/ MathNext

WholeSpec == WholeInit /\ [][WholeNext]_vars

\* the rows x, y, z of the rotation part of a view matrix form a
\* right-handed orthonormal basis
RightHanded(view) ==
    LET x == << view[1], view[5], view[9] >>
        y == << view[2], view[6], view[10] >>
        z == << view[3], view[7], view[11] >>
    IN  /\ vec3Cross(x, y) = z
        /\ vec3Dot(x, x) = 1 /\ vec3Dot(y, y) = 1 /\ vec3Dot(z, z) = 1

\* a direction parallel to the world up vector (0, 1, 0)
ParallelToUp(forward) == vec3Cross(forward, << 0, 1, 0 >>) = << 0, 0, 0 >>

\* C18: the winding is never flipped: at every draw call of every pass the
\* front face is CCW and back faces are culled; and the view basis mat4LookAt
\* builds for the mirrored camera is right-handed (x cross y = z) for every
\* camera pose whose forward is not parallel to up, in the reflection draw
\* calls of the application and for every pose and plane of the inputs.
C18_WindingNeverFlipped ==
    /\ \A i \in DOMAIN gl.log :
          gl.log[i].op = "drawElements" =>
             /\ gl.log[i].frontFace = "CCW"
             /\ gl.log[i].cullFace
             /\ gl.log[i].cullMode = "BACK"
             /\ (gl.log[i].pass = "reflection" /\ ~ParallelToUp(camera.forward)) =>
                   RightHanded(gl.log[i].uniforms.uView)
    /\ (mathIn.kind = "camera" /\ mathPc = 1 /\ ~ParallelToUp(mathIn.v)) =>
          /\ RightHanded(mathOut.mirroredView)
          /\ << mathOut.mirroredView[3], mathOut.mirroredView[7],
                mathOut.mirroredView[11] >> = vec3Scale(mathOut.mirroredForward, -1)

\* a finished frame with the debug overlay: six draw calls in three passes,
\* the reflection draws under a mirrored view that looks along +z
C18_Witness ==
    /\ pc = "idle"
    /\ Cardinality({ i \in DOMAIN gl.log : gl.log[i].op = "drawElements" }) = 6
    /\ \E i \in DOMAIN gl.log : /\ gl.log[i].op = "drawElements"
                                /\ gl.log[i].pass = "reflection"
                                /\ gl.log[i].frontFace = "CCW"
                                /\ gl.log[i].uniforms.uView[11] = -1
                                /\ RightHanded(gl.log[i].uniforms.uView)

\* C19: once init has started the render loop, every executed frame
\* schedules exactly one next frame (one callback is pending between frames,
\* none while a frame runs, and the end of render adds one), and with
\* animation-frame callbacks scheduled fairly a started frame always ends
\* and another frame always eventually begins, whatever the reflection FBO is
\* and whatever input and resize events arrive.
C19_LoopNeverStops ==
    /\ [](pc = "idle" => rafQueued = 1)
    /\ [](pc \in { "pass1", "pass2", "debug" } => rafQueued = 0)
    /\ [][(pc = "debug" /\ pc' # "debug") => (pc' = "idle" /\ rafQueued' = rafQueued + 1)]_vars
    /\ (pc = "idle") ~> (pc = "pass1")
    /\ (pc = "pass1") ~> (pc = "idle")

\* a frame has been executed after a resize that left the reflection FBO
\* null, and the next frame is scheduled
C19_Witness ==
    /\ pc = "idle"
    /\ rafQueued = 1
    /\ rebuilds > 0
    /\ reflectionFbo = Null
    /\ \E i \in DOMAIN gl.log : gl.log[i].op = "drawElements" /\ gl.log[i].pass = "composite"

\* C20: if WebGL2 context creation fails, init shows the error element and
\* returns without loading shaders, without registering a resize or input
\* listener and without scheduling a frame; handleResize and render never
\* run with a null context: the canvas is never sized, no reflection buffer
\* is created, nothing is issued to the context, and every position of the
\* render loop has a context.
C20_NoContextNoRun ==
    /\ pc # "start" => (gl.null <=> ~env.ctxOk)
    /\ (pc # "start" /\ ~env.ctxOk) =>
          /\ pc = "stopped"
          /\ errorShown
          /\ "Failed to initialize WebGL2" \in console
          /\ fetched = {}
          /\ gl.shaders = {} /\ gl.programs = {}
          /\ ~resizeListener
          /\ ~inputListeners
          /\ rafQueued = 0
          /\ canvas = [ width |-> 0, height |-> 0 ]
          /\ fboWidth = 0 /\ fboHeight = 0
          /\ reflectionFbo = Null /\ reflectionColorTex = Null
          /\ gl.log = << >>
    /\ (pc \in { "idle", "pass1", "pass2", "debug" } \/ resizeListener \/ gl.log # << >>) =>
          ~gl.null
    /\ errorShown => ~env.ctxOk

\* init has returned after a failed context creation
C20_Witness ==
    /\ ~env.ctxOk
    /\ pc = "stopped"
    /\ gl.null
    /\ errorShown
    /\ fetched = {}

\* the positions in gl.calls of the calls with an operation of ops
CallsOf(g, ops) == { i \in DOMAIN g.calls : g.calls[i].op \in ops }

C23_ReflectionMatricesMatch ==
    \A i \in GlassDraws :
        /\ \E j \in OpaqueDraws : j < i /\ gl.log[j].pass = "reflection"
        /\ \A j \in OpaqueDraws :
              gl.log[j].pass = "reflection" =>
                 /\ gl.log[i].uniforms.uReflectionViewMatrix = gl.log[j].uniforms.uView
                 /\ gl.log[i].uniforms.uReflectionProjectionMatrix = gl.log[j].uniforms.uProj

\* a frame drawn after a resize to 2 x 1: the glass draw carries the mirrored
\* view, which differs from the view of the real camera, and the projection
\* of the new size
C23_Witness ==
    /\ pc = "idle"
    /\ rebuilds > 0
    /\ \E i \in GlassDraws :
          /\ gl.log[i].viewport = << 2, 1 >>
          /\ gl.log[i].uniforms.uReflectionProjectionMatrix = mat4Perspective(2, 1)
          /\ gl.log[i].uniforms.uReflectionViewMatrix # gl.log[i].uniforms.uViewMatrix

\* the camera pose: what updateCamera writes
Pose(cam) == << cam.position, cam.forward, cam.viewMatrix >>

\* C24: the camera pose (position, forward, view matrix) changes only in the
\* step that starts a frame, where it becomes updateCamera of the camera and
\* the input state, before anything of the reflection pass; updateCamera runs
\* once in a frame; the passes and the debug overlay leave the camera alone;
\* an input event between two frames leaves the pose and the frame clock
\* alone; and the mirrored view a frame draws the reflection with is the
\* mirror image of the camera as that frame updated it.
C24_PoseOnlyByUpdateCamera ==
    /\ [][ Pose(camera') # Pose(camera) =>
              /\ pc = "idle" /\ pc' = "pass1"
              /\ \E elapsed \in { 0, 4 } :
                    camera' = updateCamera(camera, inputState, DeltaTime(elapsed)) ]_vars
    /\ [][ (pc # "idle" /\ pc # "start") => UNCHANGED << camera, inputState >> ]_vars
    /\ [][ (pc = "idle" /\ pc' = "idle") =>
              /\ Pose(camera') = Pose(camera)
              /\ UNCHANGED << lastTime, viewMatrix, frame, gl, fboVars, viewVars >> ]_vars
    /\ [](\A i \in DOMAIN gl.log :
             /\ gl.log[i].op = "updateCamera" => i = 1
             /\ gl.log[i].pass = "reflection" => gl.log[1].op = "updateCamera")
    /\ [](pc \in { "pass2", "debug" } =>
             frame.mirroredView =
                MirroredCamera(camera.position, camera.forward, clipPlane).mirroredView)

\* the composite pass of a frame that follows a turn of the mouse and a flight
\* with a key held down: the camera has left its first position and
\* direction, and the mirrored view is the mirror image of where it is now
C24_Witness ==
    /\ pc = "pass2"
    /\ camera.yaw # InitialCamera.yaw
    /\ camera.position # InitialCamera.position
    /\ camera.forward # << 0, 0, -1000 >>
    /\ keysDown # {}
    /\ frame.mirroredView =
          MirroredCamera(camera.position, camera.forward, clipPlane).mirroredView
    /\ frame.mirroredView # MirroredCamera(InitialCamera.position, << 0, 0, -1000 >>, clipPlane).mirroredView

\* the draw calls of the pass 'pass'
DrawsOf(pass) ==
    { i \in DOMAIN gl.log : gl.log[i].op = "drawElements" /\ gl.log[i].pass = pass }

\* C25: a frame draws the glass once, in the composite pass, into the
\* default framebuffer and after the two opaque draws (cube, sphere) of that
\* pass; the draws of the reflection pass are the cube and the sphere with the
\* standard program, never the plane; and in both passes a clear of color and
\* depth on the target of the pass comes before the first draw of the pass.
C25_GlassOnceAfterOpaque ==
    /\ Cardinality(GlassDraws) <= 1
    /\ (pc = "debug" \/ (pc = "idle" /\ gl.log # << >>)) => Cardinality(GlassDraws) = 1
    /\ { gl.log[i].vao : i \in GlassDraws } \subseteq { "planeVao" }
    /\ \A i \in DOMAIN gl.log :
          (gl.log[i].op = "drawElements" /\ gl.log[i].vao = "planeVao") => i \in GlassDraws
    /\ \A i \in GlassDraws :
          /\ gl.log[i].pass = "composite"
          /\ gl.log[i].framebuffer = Null
          /\ gl.log[i].program = glassProgram
          /\ { gl.log[j].vao : j \in { k \in DrawsOf("composite") : k < i } }
                = { "cubeVao", "sphereVao" }
          /\ \A j \in DrawsOf("composite") \cap OpaqueDraws : j < i
    /\ \A i \in DrawsOf("reflection") :
          /\ i \in OpaqueDraws
          /\ gl.log[i].program = standardProgram
          /\ gl.log[i].vao \in { "cubeVao", "sphereVao" }
    /\ (pc \in { "pass2", "debug" } \/ (pc = "idle" /\ gl.log # << >>)) =>
          { gl.log[i].vao : i \in DrawsOf("reflection") } = { "cubeVao", "sphereVao" }
    /\ \A pass \in { "reflection", "composite" } :
          \A i \in DrawsOf(pass) :
             \E c \in 1..(i - 1) :
                /\ gl.log[c].op = "clear"
                /\ gl.log[c].pass = pass
                /\ gl.log[c].framebuffer = gl.log[i].framebuffer
                /\ \A j \in DrawsOf(pass) : c < j

\* a finished frame on a complete reflection framebuffer: two opaque draws
\* into it, then two opaque draws and the glass into the default framebuffer
C25_Witness ==
    /\ pc = "idle"
    /\ reflectionFbo # Null
    /\ Cardinality(GlassDraws) = 1
    /\ Cardinality(DrawsOf("reflection")) = 2
    /\ Cardinality(DrawsOf("composite")) = 3
    /\ \A i \in DrawsOf("reflection") : gl.log[i].framebuffer = reflectionFbo
    /\ \A i \in GlassDraws : i = 10 /\ gl.log[i].framebuffer = Null

\* the basis mat4LookAt builds from a camera looking along 'forward' with the
\* up vector 'up' is degenerate: up x z = 0 for z = -forward
DegenerateBasis(forward, up) ==
    vec3Cross(up, vec3Scale(forward, -1)) = << 0, 0, 0 >>

\* C26: after any sequence of mouse-move and pointer-lock events (with key
\* events between them) the pitch is within maxPitch = pi/2 - 0.01 of level,
\* so the forward vector the next frame computes from yaw and pitch is not
\* parallel to world-up, and neither the look-at basis of the camera nor that
\* of the mirrored camera is degenerate; and yaw and pitch change only in a
\* step taken while the pointer lock is held.
C26_PitchClamped ==
    /\ [](/\ -maxPitch <= camera.pitch
          /\ camera.pitch <= maxPitch
          /\ LET forward == updateCameraForward(camera).forward
                 m == MirroredCamera(camera.position, forward, clipPlane)
             IN  /\ ~ParallelToUp(forward)
                 /\ ~DegenerateBasis(forward, << 0, 1, 0 >>)
                 /\ ~DegenerateBasis(m.mirroredForward, m.mirroredUp))
    /\ [][ (camera'.yaw # camera.yaw \/ camera'.pitch # camera.pitch) =>
              inputState.pointerLocked ]_vars

\* the mouse has pushed the pitch against the upper bound and turned the
\* camera off its first direction, and the lock has been released since: the
\* forward vector points almost straight up, a hundredth off
C26_Witness ==
    /\ camera.pitch = maxPitch
    /\ camera.yaw # InitialCamera.yaw
    /\ ~inputState.pointerLocked
    /\ updateCameraForward(camera).forward[2] > 990
    /\ MathCos(camera.pitch) = 10

\* the value the keys 'plus' and 'minus' of an axis ask for when at most one
\* of the two groups is held
AxisOfKeys(plus, minus) ==
    IF keysDown \cap plus # {} /\ keysDown \cap minus = {} THEN 1
    ELSE IF keysDown \cap minus # {} /\ keysDown \cap plus = {} THEN -1
    ELSE 0

\* C30: after any sequence of keydown and keyup events each movement axis is
\* -1, 0 or 1; when exactly one key of a pair (W/S, A/D, Space/Shift) is held
\* the axis has that key's direction (+1 for W, D, Space, -1 for S, A,
\* Shift); and it is 0 when neither key of the pair is held.
C30_AxisFollowsHeldKey ==
    /\ inputState.forward \in { -1, 0, 1 }
    /\ inputState.right \in { -1, 0, 1 }
    /\ inputState.up \in { -1, 0, 1 }
    /\ (keysDown \cap { "KeyW", "KeyS" } = { "KeyW" }) => inputState.forward = 1
    /\ (keysDown \cap { "KeyW", "KeyS" } = { "KeyS" }) => inputState.forward = -1
    /\ (keysDown \cap { "KeyW", "KeyS" } = {}) => inputState.forward = 0
    /\ (keysDown \cap { "KeyA", "KeyD" } = { "KeyD" }) => inputState.right = 1
    /\ (keysDown \cap { "KeyA", "KeyD" } = { "KeyA" }) => inputState.right = -1
    /\ (keysDown \cap { "KeyA", "KeyD" } = {}) => inputState.right = 0
    /\ (keysDown \cap { "Space", "ShiftLeft", "ShiftRight" } # {}) =>
          (AxisOfKeys({ "Space" }, { "ShiftLeft", "ShiftRight" }) # 0 =>
              inputState.up = AxisOfKeys({ "Space" }, { "ShiftLeft", "ShiftRight" }))
    /\ (keysDown \cap { "Space", "ShiftLeft", "ShiftRight" } = {}) => inputState.up = 0

\* C29: createProgram leaves no shader object allocated when it returns,
\* whether the program linked, a stage failed to compile (the other stage
\* compiled or not) or the link failed; and a program object survives only
\* when createProgram returned it.  init is the caller: after its three
\* calls the context holds no shader, and the programs it holds are the ones
\* init got back.
C29_NoShaderLeft ==
    pc # "start" =>
       /\ gl.shaders = {}
       /\ gl.programs = { standardProgram, glassProgram, debugProgram } \ { Null }

\* the draw calls of the frame issued while a framebuffer object is bound as
\* the draw target
DrawsIntoFbo ==
    { i \in DOMAIN gl.log : gl.log[i].op = "drawElements" /\ gl.log[i].framebuffer # Null }

\* C28: a draw call issued while the reflection framebuffer is the draw
\* target runs the standard program, whose only sampler reads texture unit 0,
\* and unit 0 holds the base texture: no sampler of the draw reads the color
\* texture attached to the framebuffer drawn into, although that texture may
\* be bound to units 1 and 2 since the previous frame.
C28_NoFeedbackLoop ==
    \A i \in DrawsIntoFbo :
        /\ gl.log[i].pass = "reflection"
        /\ gl.log[i].program = standardProgram
        /\ gl.log[i].uniforms.shader = "standard"
        /\ SamplerUnits(gl.log[i].uniforms) = { 0 }
        /\ gl.log[i].units[1] = baseTexture
        /\ \A unit \in SamplerUnits(gl.log[i].uniforms) :
              /\ \A f \in gl.framebuffers :
                    f.id = gl.log[i].framebuffer => gl.log[i].units[unit + 1] # f.color
              /\ gl.log[i].framebuffer = reflectionFbo =>
                    gl.log[i].units[unit + 1] # reflectionColorTex

\* the reflection pass of a frame after one with the debug overlay has just
\* run: its draws went into the reflection framebuffer while the color
\* texture of that framebuffer was bound to units 1 and 2
C28_Witness ==
    /\ pc = "pass2"
    /\ reflectionFbo # Null
    /\ Cardinality(DrawsIntoFbo) = 2
    /\ \A i \in DrawsIntoFbo :
          /\ gl.log[i].framebuffer = reflectionFbo
          /\ gl.log[i].units = << baseTexture, reflectionColorTex, reflectionColorTex >>
    /\ \E f \in gl.framebuffers : f.id = reflectionFbo /\ f.color = reflectionColorTex

\* the handles of the objects the context holds
TextureIds == { x.id : x \in gl.textures }

RenderbufferIds == { x.id : x \in gl.renderbuffers }

FramebufferIds == { f.id : f \in gl.framebuffers }

\* the texture units from which a draw call samples the reflection: unit
\* uReflectionTex in the glass draw, unit uTex in the debug overlay
ReflectionSamplerUnits(uniforms) ==
    IF uniforms.shader = "glass" THEN { uniforms.uReflectionTex }
    ELSE IF uniforms.shader = "debug" THEN { uniforms.uTex }
    ELSE {}

\* C27: with resize events and debug toggles between the frames in any
\* order, texture unit 0 holds the base texture at every draw call; the
\* texture the glass draw and the debug overlay sample as the reflection is
\* the color texture attached to the reflection framebuffer (judged while
\* that texture exists: a later resize deletes it together with its
\* framebuffer); and no handle in use is one that was deleted: the bound
\* framebuffer and textures, the handles render binds and the attachments of
\* the framebuffer are objects the context holds.
C27_BindingsCurrent ==
    /\ \A i \in DOMAIN gl.log :
          gl.log[i].op = "drawElements" =>
             /\ gl.log[i].units[1] = baseTexture
             /\ baseTexture \in TextureIds
             /\ \A unit \in ReflectionSamplerUnits(gl.log[i].uniforms) :
                   /\ gl.log[i].units[unit + 1] # Null
                   /\ gl.log[i].units[unit + 1] \in TextureIds =>
                         /\ reflectionFbo # Null
                         /\ \E f \in gl.framebuffers :
                               /\ f.id = reflectionFbo
                               /\ f.color = gl.log[i].units[unit + 1]
    /\ pc \in { "pass1", "pass2", "debug" } =>
          \A i \in DOMAIN gl.log :
             /\ gl.log[i].framebuffer \in FramebufferIds \cup { Null }
             /\ \A k \in 1..3 : gl.log[i].units[k] \in TextureIds \cup { Null }
    /\ pc \in { "idle", "pass1", "pass2", "debug" } =>
          /\ gl.framebuffer \in FramebufferIds \cup { Null }
          /\ \A k \in 1..3 : gl.units[k] \in TextureIds \cup { Null }
          /\ reflectionFbo \in FramebufferIds \cup { Null }
          /\ reflectionColorTex \in TextureIds
          /\ reflectionDepth \in RenderbufferIds
          /\ \A f \in gl.framebuffers : f.color \in TextureIds /\ f.depth \in RenderbufferIds

====
